---- MODULE Spec2Model ----
(***************************************************************************)
(* dataclean: snapshots of the data volumes of a compose stack.            *)
(*                                                                         *)
(* The model follows internal/snapshot (Manager), internal/docker (Client) *)
(* and internal/models.  A caller of the Manager is single-threaded, so    *)
(* one Manager operation is one action; the requests it issues to the      *)
(* container runtime and to the file system are recorded, in order, in the *)
(* history variable `trace`, and its result in `ret`.                      *)
(*                                                                         *)
(* Strings that the code takes apart (names, file names) are sequences of  *)
(* string pieces; all other strings are TLA+ strings.                      *)
(***************************************************************************)
EXTENDS Integers, Sequences, FiniteSets, TLC

VARIABLES
    root,       \* the snapshot root directory: [exists, entries]
    volData,    \* contents of each container volume (0 = empty)
    now,        \* wall clock, in seconds: the second in which the run happens
    nextId,     \* history: number of Create calls made so far
    trace,      \* history: requests issued by the last operation, in order
    ret,        \* history: the last operation, its arguments and its result
    fresh       \* history: the names created, while the run has held nothing
                \* but successful Creates of distinct names on the empty root

vars == <<root, volData, now, nextId, trace, ret, fresh>>

----------------------------------------------------------------------------
(* Bounds *)

MaxTime == 0
MaxData == 1
MaxCreates == 2

\* the catalog over time (SpecRetention): clock ticks, ticks in a day, Creates
MaxClock == 4
TicksPerDay == 2
MaxSnapshots == 3

\* the longest volume name given to sanitizeName (SpecSanitize)
MaxNameLen == 3

\* how many Create calls a run that restores an auto-backup goes to
MaxBackupCreates == 3

----------------------------------------------------------------------------
(* Volumes as the detector hands them to the Manager *)

VolA == [Name |-> <<"p", "_", "a">>, DatastoreType |-> "postgres",
         ContainerName |-> <<"db">>, SizeBytes |-> 0]

VolB == [Name |-> <<"p", "_", "b">>, DatastoreType |-> "generic",
         ContainerName |-> <<>>, SizeBytes |-> 0]

VolNames == {VolA.Name, VolB.Name}

\* what detection yields for the stack, and what `snapshot --include` may narrow it to
Detected == <<VolA, VolB>>

VolLists == {Detected, <<VolB>>}

Data == 0..MaxData

----------------------------------------------------------------------------
(* Snapshot names *)

UserNames == {<<"s", "1">>, <<"s", "2">>}

Stamp(t) == <<"0", "1", "2", "3", "4", "5", "6", "7", "8", "9">>[t + 1]

PreRestoreName(t) == <<"_", "pre-restore-", Stamp(t)>>

PreResetName(t) == <<"_", "pre-reset-", Stamp(t)>>

Times == 0..MaxTime

Names == UserNames \cup {PreRestoreName(t) : t \in Times}
                   \cup {PreResetName(t) : t \in Times}

HasPrefix(name, piece) == Len(name) > 0 /\ name[1] = piece

----------------------------------------------------------------------------
(* sanitizeName *)

UnsafeChars == <<"/", "\\", ":", "*", "?", "\"", "<", ">", "|">>

\* strings.Replace(s, old, new, 1): the first occurrence only
ReplaceAll_First(s, old, new) ==
    [i \in 1..Len(s) |->
        IF s[i] = old /\ \A j \in 1..(i - 1) : s[j] # old THEN new ELSE s[i]]

ReplaceAll(s, old, new) == [i \in 1..Len(s) |-> IF s[i] = old THEN new ELSE s[i]]

RECURSIVE sanitizeFrom(_, _)
sanitizeFrom(result, k) ==
    IF k > Len(UnsafeChars) THEN result
    ELSE sanitizeFrom(ReplaceAll(result, UnsafeChars[k], "_"), k + 1)

sanitizeName(name) == sanitizeFrom(name, 1)

TarPath(vol) == sanitizeName(vol.Name) \o <<".tar.gz">>

----------------------------------------------------------------------------
(* The snapshot root on disk.  An entry of the root is absent, a plain     *)
(* file or a directory; a directory holds metadata.yaml (or not) and the   *)
(* archive files, by file name.  `by` on a file is history: the Create     *)
(* call that wrote it.                                                     *)

NoMeta == [state |-> "none", doc |-> <<>>, by |-> 0]

Malformed == [state |-> "malformed", doc |-> <<>>, by |-> 0]

Absent == [kind |-> "absent", meta |-> NoMeta, files |-> <<>>]

PlainFile == [kind |-> "file", meta |-> NoMeta, files |-> <<>>]

EmptyDir == [kind |-> "dir", meta |-> NoMeta, files |-> <<>>]

EmptyRoot == [exists |-> FALSE, entries |-> [n \in Names |-> Absent]]

\* directory listing order of os.ReadDir: sorted by file name
DirOrder ==
    [i \in 1..(MaxTime + 1) |-> PreResetName(i - 1)]
        \o [i \in 1..(MaxTime + 1) |-> PreRestoreName(i - 1)]
        \o << <<"s", "1">>, <<"s", "2">> >>

----------------------------------------------------------------------------
(* models.Snapshot and its YAML form.  A document is a function from the   *)
(* keys present in the file to their values: fields tagged omitempty are   *)
(* left out when they hold their zero value, and a key that is missing     *)
(* reads back as the zero value.                                           *)

NoSnap == [Name |-> <<>>, Timestamp |-> 0, Volumes |-> <<>>, SizeBytes |-> 0,
           Path |-> <<>>, Tags |-> <<>>, Description |-> "", Metadata |-> <<>>]

Field(doc, key, zero) == IF key \in DOMAIN doc THEN doc[key] ELSE zero

OmitEmpty(key, value, zero) == IF value = zero THEN <<>> ELSE key :> value

MarshalVolume(v) ==
    ("name" :> v.Name) @@ ("datastore_type" :> v.DatastoreType)
        @@ OmitEmpty("container_name", v.ContainerName, <<>>)
        @@ OmitEmpty("size_bytes", v.SizeBytes, 0)

UnmarshalVolume(d) ==
    [Name |-> Field(d, "name", <<>>),
     DatastoreType |-> Field(d, "datastore_type", ""),
     ContainerName |-> Field(d, "container_name", <<>>),
     SizeBytes |-> Field(d, "size_bytes", 0)]

\* yamlMarshal with the volume names left out of the document
yamlMarshal_NoVolumeNames(s) ==
    ("name" :> s.Name) @@ ("timestamp" :> s.Timestamp)
        @@ ("volumes" :> [i \in 1..Len(s.Volumes) |->
                             ("datastore_type" :> s.Volumes[i].DatastoreType)])
        @@ ("size_bytes" :> s.SizeBytes) @@ ("path" :> s.Path)
        @@ OmitEmpty("tags", s.Tags, <<>>)
        @@ OmitEmpty("description", s.Description, "")
        @@ OmitEmpty("metadata", s.Metadata, <<>>)

yamlMarshal(s) ==
    ("name" :> s.Name) @@ ("timestamp" :> s.Timestamp)
        @@ ("volumes" :> [i \in 1..Len(s.Volumes) |-> MarshalVolume(s.Volumes[i])])
        @@ ("size_bytes" :> s.SizeBytes) @@ ("path" :> s.Path)
        @@ OmitEmpty("tags", s.Tags, <<>>)
        @@ OmitEmpty("description", s.Description, "")
        @@ OmitEmpty("metadata", s.Metadata, <<>>)

yamlUnmarshal(d) ==
    LET vs == Field(d, "volumes", <<>>) IN
    [Name |-> Field(d, "name", <<>>),
     Timestamp |-> Field(d, "timestamp", 0),
     Volumes |-> [i \in 1..Len(vs) |-> UnmarshalVolume(vs[i])],
     SizeBytes |-> Field(d, "size_bytes", 0),
     Path |-> Field(d, "path", <<>>),
     Tags |-> Field(d, "tags", <<>>),
     Description |-> Field(d, "description", ""),
     Metadata |-> Field(d, "metadata", <<>>)]

----------------------------------------------------------------------------
(* Manager.loadMetadata, Get, List *)

EntryOf(r, name) == IF r.exists THEN r.entries[name] ELSE Absent

loadMetadata(r, snapshotDir) ==
    LET e == EntryOf(r, snapshotDir) IN
    IF e.kind # "dir" \/ e.meta.state = "none"
    THEN [err |-> "snapshot metadata not found", snap |-> NoSnap]
    ELSE IF e.meta.state = "malformed"
    THEN [err |-> "invalid snapshot metadata", snap |-> NoSnap]
    ELSE [err |-> "",
          snap |-> [yamlUnmarshal(e.meta.doc) EXCEPT !.Path = snapshotDir]]

Get(r, name) == loadMetadata(r, name)

\* sort.Slice with less(i, j) = snapshots[i].Timestamp.After(snapshots[j].Timestamp);
\* below 12 elements Go sorts by insertion, moving an element left while it is
\* less than its left neighbour
\* insertLeft with less(i, j) = snapshots[i].Timestamp.Before(snapshots[j].Timestamp)
RECURSIVE insertLeft_Before(_, _)
insertLeft_Before(sorted, x) ==
    IF sorted = <<>> THEN <<x>>
    ELSE IF x.Timestamp < sorted[Len(sorted)].Timestamp
    THEN Append(insertLeft_Before(SubSeq(sorted, 1, Len(sorted) - 1), x),
                sorted[Len(sorted)])
    ELSE Append(sorted, x)

RECURSIVE insertLeft(_, _)
insertLeft(sorted, x) ==
    IF sorted = <<>> THEN <<x>>
    ELSE IF x.Timestamp > sorted[Len(sorted)].Timestamp
    THEN Append(insertLeft(SubSeq(sorted, 1, Len(sorted) - 1), x), sorted[Len(sorted)])
    ELSE Append(sorted, x)

RECURSIVE sortSlice(_, _)
sortSlice(snapshots, n) ==
    IF n = 0 THEN <<>>
    ELSE insertLeft(sortSlice(snapshots, n - 1), snapshots[n])

\* the loop of List without the two `continue`s: every entry yields a record
RECURSIVE listFrom_NoSkip(_, _, _)
listFrom_NoSkip(r, entries, i) ==
    IF i > Len(entries) THEN <<>>
    ELSE <<loadMetadata(r, entries[i]).snap>> \o listFrom_NoSkip(r, entries, i + 1)

RECURSIVE listFrom(_, _, _)
listFrom(r, entries, i) ==
    IF i > Len(entries) THEN <<>>
    ELSE LET name == entries[i]
             rest == listFrom(r, entries, i + 1)
         IN IF r.entries[name].kind # "dir" THEN rest
            ELSE IF loadMetadata(r, name).err # "" THEN rest
            ELSE <<loadMetadata(r, name).snap>> \o rest

ReadDir(r) == SelectSeq(DirOrder, LAMBDA n : r.entries[n].kind # "absent")

List(r) ==
    IF ~r.exists THEN [snaps |-> <<>>, err |-> ""]
    ELSE LET snapshots == listFrom(r, ReadDir(r), 1)
         IN [snaps |-> sortSlice(snapshots, Len(snapshots)), err |-> ""]

----------------------------------------------------------------------------
(* docker.Client: the requests sent to the container runtime.  An event of *)
(* the trace is [e |-> what, a |-> on what].                               *)

Ev(e, a) == [e |-> e, a |-> a]

VolumeNames(volumes) == [i \in 1..Len(volumes) |-> volumes[i].Name]

\* the event of entering Create: its name and the volume list it is given
Call(name, volumes) == [e |-> "Create", a |-> name, vols |-> VolumeNames(volumes)]

RECURSIVE containerRequests(_, _, _)
containerRequests(verb, volumes, i) ==
    IF i > Len(volumes) THEN <<>>
    ELSE (IF volumes[i].ContainerName # <<>>
          THEN <<Ev(verb, volumes[i].ContainerName)>> ELSE <<>>)
         \o containerRequests(verb, volumes, i + 1)

StopContainers(volumes) == containerRequests("docker stop", volumes, 1)

StartContainers(volumes) == containerRequests("docker start", volumes, 1)

\* tar czf of the volume into destPath: the archive holds the volume's data
Archive(volume, data, id) == [data |-> data[volume.Name], by |-> id]

ExportVolume(files, volume, destPath, data, id) ==
    (destPath :> Archive(volume, data, id)) @@ files

\* os.Stat(tarPath).Size(): an archive of d units of data takes d + 1
FileSize(archive) == archive.data + 1

\* rm -rf of the volume's contents, then tar xzf of srcPath into it; a failed
\* import leaves the volume as it was or emptied by the first step
ImportVolume(data, files, srcPath, volume, outcome) ==
    IF outcome = "ok" /\ srcPath \in DOMAIN files
    THEN [data |-> [data EXCEPT ![volume.Name] = files[srcPath].data], err |-> ""]
    ELSE IF outcome = "failed untouched"
    THEN [data |-> data, err |-> "import failed"]
    ELSE [data |-> [data EXCEPT ![volume.Name] = 0], err |-> "import failed"]

\* rm -rf of the volume's contents
ClearVolume(data, volume, outcome) ==
    IF outcome = "ok"
    THEN [data |-> [data EXCEPT ![volume.Name] = 0], err |-> ""]
    ELSE IF outcome = "failed untouched"
    THEN [data |-> data, err |-> "clear failed"]
    ELSE [data |-> [data EXCEPT ![volume.Name] = 0], err |-> "clear failed"]

----------------------------------------------------------------------------
(* Faults of the environment during one call.  A Create call meets at most *)
(* one: MkdirAll fails, the export of volume k fails, or writing           *)
(* metadata.yaml fails (exportStep also follows the branch of a failing    *)
(* os.Stat, fault "stat", which CreateFaults does not draw).  A Restore or *)
(* Reset loop meets at most one failing import or clear, at volume k.      *)

NoFault == [f |-> "none", k |-> 0]

CreateFaults(volumes) ==
    {NoFault, [f |-> "mkdir", k |-> 0], [f |-> "write", k |-> 0]}
        \cup {[f |-> "export", k |-> k] : k \in 1..Len(volumes)}

LoopFaults(volumes) ==
    {NoFault} \cup {[f |-> o, k |-> k] :
                       o \in {"failed untouched", "failed emptied"},
                       k \in 1..Len(volumes)}

Outcome(fault, i) == IF fault.k = i THEN fault.f ELSE "ok"

----------------------------------------------------------------------------
(* Manager.CreateWithOptions.  Where a definition binds a value through a  *)
(* one-element set ({e : x \in {v}}), that is only so that v is computed   *)
(* once.                                                                   *)

NoOpts == [Tags |-> <<>>, Description |-> "", Metadata |-> <<>>]

PutEntry(r, name, entry) ==
    [exists |-> TRUE, entries |-> [r.entries EXCEPT ![name] = entry]]

\* exportStep without the return of line 66: the loop goes on to the next
\* volume after a failed export
exportStep_KeepGoing(acc, vol, i, data, id, fault) ==
    IF fault.f = "export" /\ fault.k = i
    THEN [acc EXCEPT !.err = "failed to export volume",
                     !.trace = @ \o <<Ev("export failed", vol.Name)>>]
    ELSE [files |-> ExportVolume(acc.files, vol, TarPath(vol), data, id),
          totalSize |-> acc.totalSize + FileSize(Archive(vol, data, id)),
          snapshotVolumes |-> Append(acc.snapshotVolumes,
              [vol EXCEPT !.SizeBytes = FileSize(Archive(vol, data, id))]),
          trace |-> acc.trace \o <<Ev("export", vol.Name)>>,
          err |-> acc.err]

\* one round of the loop over the volumes (lines 62-78): acc is the loop's state
exportStep(acc, vol, i, data, id, fault) ==
    IF acc.err # "" THEN acc
    ELSE IF fault.f = "export" /\ fault.k = i
    THEN [acc EXCEPT !.err = "failed to export volume",
                     !.trace = @ \o <<Ev("export failed", vol.Name)>>]
    ELSE LET statOK == ~(fault.f = "stat" /\ fault.k = i)
             size == FileSize(Archive(vol, data, id))
         IN [files |-> ExportVolume(acc.files, vol, TarPath(vol), data, id),
             totalSize |-> acc.totalSize + (IF statOK THEN size ELSE 0),
             snapshotVolumes |-> Append(acc.snapshotVolumes,
                 IF statOK THEN [vol EXCEPT !.SizeBytes = size] ELSE vol),
             trace |-> acc.trace \o <<Ev("export", vol.Name)>>,
             err |-> ""]

RECURSIVE exportLoop(_, _, _, _, _, _)
exportLoop(volumes, n, files, data, id, fault) ==
    IF n = 0
    THEN [files |-> files, totalSize |-> 0, snapshotVolumes |-> <<>>,
          trace |-> <<>>, err |-> ""]
    ELSE CHOOSE x \in {exportStep(acc, volumes[n], n, data, id, fault) :
                          acc \in {exportLoop(volumes, n - 1, files, data, id, fault)}} :
             TRUE

\* createFinish with StartContainers called before each return but that of
\* line 66, instead of deferred
createFinish_NoDefer(r, t, id, name, volumes, opts, cfg, fault, dir, loop) ==
    LET written == [dir EXCEPT !.files = loop.files]
        snapshot == [Name |-> name, Timestamp |-> t,
                     Volumes |-> loop.snapshotVolumes,
                     SizeBytes |-> loop.totalSize, Path |-> name,
                     Tags |-> cfg.DefaultTags \o opts.Tags,
                     Description |-> opts.Description,
                     Metadata |-> opts.Metadata]
        head == <<Call(name, volumes), Ev("mkdir", name)>>
                    \o StopContainers(volumes) \o loop.trace
    IN
    IF loop.err # ""
    THEN [root |-> PutEntry(r, name, written), err |-> loop.err, snap |-> NoSnap,
          trace |-> head \o <<Ev("return error", name)>>]
    ELSE IF fault.f = "write"
    THEN [root |-> PutEntry(r, name, written), err |-> "failed to write metadata",
          snap |-> NoSnap,
          trace |-> head \o StartContainers(volumes) \o <<Ev("return error", name)>>]
    ELSE [root |-> PutEntry(r, name,
                      [written EXCEPT !.meta = [state |-> "yaml",
                                                doc |-> yamlMarshal(snapshot),
                                                by |-> id]]),
          err |-> "", snap |-> snapshot,
          trace |-> head \o <<Ev("write metadata", name)>>
                        \o StartContainers(volumes) \o <<Ev("return", name)>>]

\* lines 80-108, and the returns of lines 66 and 105; the deferred
\* StartContainers runs as the call returns
createFinish(r, t, id, name, volumes, opts, cfg, fault, dir, loop) ==
    LET written == [dir EXCEPT !.files = loop.files]
        snapshot == [Name |-> name, Timestamp |-> t,
                     Volumes |-> loop.snapshotVolumes,
                     SizeBytes |-> loop.totalSize, Path |-> name,
                     Tags |-> cfg.DefaultTags \o opts.Tags,
                     Description |-> opts.Description,
                     Metadata |-> opts.Metadata]
        head == <<Call(name, volumes), Ev("mkdir", name)>>
                    \o StopContainers(volumes) \o loop.trace
    IN
    IF loop.err # ""
    THEN [root |-> PutEntry(r, name, written), err |-> loop.err, snap |-> NoSnap,
          trace |-> head \o StartContainers(volumes) \o <<Ev("return error", name)>>]
    ELSE IF fault.f = "write"
    THEN [root |-> PutEntry(r, name, written), err |-> "failed to write metadata",
          snap |-> NoSnap,
          trace |-> head \o StartContainers(volumes) \o <<Ev("return error", name)>>]
    ELSE [root |-> PutEntry(r, name,
                      [written EXCEPT !.meta = [state |-> "yaml",
                                                doc |-> yamlMarshal(snapshot),
                                                by |-> id]]),
          err |-> "", snap |-> snapshot,
          trace |-> head \o <<Ev("write metadata", name)>>
                        \o StartContainers(volumes) \o <<Ev("return", name)>>]

CreateWithOptions(r, data, t, id, name, volumes, opts, cfg, fault) ==
    IF fault.f = "mkdir" \/ EntryOf(r, name).kind = "file"
    THEN [root |-> r, err |-> "failed to create snapshot directory", snap |-> NoSnap,
          trace |-> <<Call(name, volumes), Ev("return error", name)>>]
    ELSE CHOOSE x \in
           {createFinish(r, t, id, name, volumes, opts, cfg, fault, dir,
                         exportLoop(volumes, Len(volumes), dir.files, data, id, fault)) :
              dir \in {IF EntryOf(r, name).kind = "dir"
                       THEN EntryOf(r, name) ELSE EmptyDir}} : TRUE

\* Manager.Create: no options
Create(r, data, t, id, name, volumes, cfg, fault) ==
    CreateWithOptions(r, data, t, id, name, volumes, NoOpts, cfg, fault)

----------------------------------------------------------------------------
(* Manager.Restore, Reset, Delete *)

\* the pre-restore / pre-reset backup (lines 121-125, 145-149); its result is dropped
Backup(r, data, t, id, backupName, volumes, cfg, fault) ==
    IF cfg.BackupBeforeRestore
    THEN CHOOSE x \in {[root |-> c.root, trace |-> c.trace, calls |-> 1] :
                         c \in {Create(r, data, t, id, backupName, volumes, cfg, fault)}} :
             TRUE
    ELSE [root |-> r, trace |-> <<>>, calls |-> 0]

\* importStep without the return of line 135: the loop goes on to the next
\* volume after a failed import
importStep_KeepGoing(acc, vol, i, files, fault) ==
    CHOOSE x \in
      {IF res.err # ""
       THEN [data |-> res.data, err |-> "failed to import volume",
             trace |-> acc.trace \o <<Ev("import failed", vol.Name)>>]
       ELSE [data |-> res.data, err |-> acc.err,
             trace |-> acc.trace \o <<Ev("import", vol.Name)>>] :
         res \in {ImportVolume(acc.data, files, TarPath(vol), vol,
                               Outcome(fault, i))}} : TRUE

importStep(acc, vol, i, files, fault) ==
    IF acc.err # "" THEN acc
    ELSE CHOOSE x \in
           {IF res.err # ""
            THEN [data |-> res.data, err |-> "failed to import volume",
                  trace |-> acc.trace \o <<Ev("import failed", vol.Name)>>]
            ELSE [data |-> res.data, err |-> "",
                  trace |-> acc.trace \o <<Ev("import", vol.Name)>>] :
              res \in {ImportVolume(acc.data, files, TarPath(vol), vol,
                                    Outcome(fault, i))}} : TRUE

RECURSIVE importLoop(_, _, _, _, _)
importLoop(volumes, n, data, files, fault) ==
    IF n = 0 THEN [data |-> data, err |-> "", trace |-> <<>>]
    ELSE CHOOSE x \in {importStep(acc, volumes[n], n, files, fault) :
                          acc \in {importLoop(volumes, n - 1, data, files, fault)}} :
             TRUE

restoreFinish(snapshot, backup, loop) ==
    [root |-> backup.root, data |-> loop.data, err |-> loop.err,
     calls |-> backup.calls,
     trace |-> backup.trace \o StopContainers(snapshot.Volumes) \o loop.trace
                   \o StartContainers(snapshot.Volumes)]

\* restoreLoaded with the result of the backup checked: a failed backup
\* ends the restore
restoreLoaded_BackupChecked(r, data, t, id, name, cfg, cfault, fault, snapshot) ==
    CHOOSE x \in
      {IF backup.trace # <<>> /\ backup.trace[Len(backup.trace)].e = "return error"
       THEN [root |-> backup.root, data |-> data, err |-> "backup failed",
             calls |-> backup.calls, trace |-> backup.trace]
       ELSE restoreFinish(snapshot, backup,
                          importLoop(snapshot.Volumes, Len(snapshot.Volumes), data,
                                     EntryOf(backup.root, name).files, fault)) :
         backup \in {Backup(r, data, t, id, PreRestoreName(t), snapshot.Volumes,
                            cfg, cfault)}} : TRUE

restoreLoaded(r, data, t, id, name, cfg, cfault, fault, snapshot) ==
    CHOOSE x \in
      {restoreFinish(snapshot, backup,
                     importLoop(snapshot.Volumes, Len(snapshot.Volumes), data,
                                EntryOf(backup.root, name).files, fault)) :
         backup \in {Backup(r, data, t, id, PreRestoreName(t), snapshot.Volumes,
                            cfg, cfault)}} : TRUE

\* Restore with the backup taken before the record is loaded
Restore_BackupFirst(r, data, t, id, name, cfg, cfault, fault) ==
    IF loadMetadata(r, name).err # ""
    THEN [root |-> Backup(r, data, t, id, PreRestoreName(t), <<>>, cfg, cfault).root,
          data |-> data, err |-> loadMetadata(r, name).err,
          trace |-> Backup(r, data, t, id, PreRestoreName(t), <<>>, cfg, cfault).trace,
          calls |-> Backup(r, data, t, id, PreRestoreName(t), <<>>, cfg, cfault).calls]
    ELSE restoreLoaded(r, data, t, id, name, cfg, cfault, fault,
                       loadMetadata(r, name).snap)

Restore(r, data, t, id, name, cfg, cfault, fault) ==
    CHOOSE x \in
      {IF loaded.err # ""
       THEN [root |-> r, data |-> data, err |-> loaded.err, trace |-> <<>>,
             calls |-> 0]
       ELSE restoreLoaded(r, data, t, id, name, cfg, cfault, fault, loaded.snap) :
         loaded \in {loadMetadata(r, name)}} : TRUE

\* clearStep without the return of line 158: the loop goes on to the next
\* volume after a failed clear
clearStep_KeepGoing(acc, vol, i, fault) ==
    CHOOSE x \in
      {IF res.err # ""
       THEN [data |-> res.data, err |-> "failed to clear volume",
             trace |-> acc.trace \o <<Ev("clear failed", vol.Name)>>]
       ELSE [data |-> res.data, err |-> acc.err,
             trace |-> acc.trace \o <<Ev("clear", vol.Name)>>] :
         res \in {ClearVolume(acc.data, vol, Outcome(fault, i))}} : TRUE

clearStep(acc, vol, i, fault) ==
    IF acc.err # "" THEN acc
    ELSE CHOOSE x \in
           {IF res.err # ""
            THEN [data |-> res.data, err |-> "failed to clear volume",
                  trace |-> acc.trace \o <<Ev("clear failed", vol.Name)>>]
            ELSE [data |-> res.data, err |-> "",
                  trace |-> acc.trace \o <<Ev("clear", vol.Name)>>] :
              res \in {ClearVolume(acc.data, vol, Outcome(fault, i))}} : TRUE

RECURSIVE clearLoop(_, _, _, _)
clearLoop(volumes, n, data, fault) ==
    IF n = 0 THEN [data |-> data, err |-> "", trace |-> <<>>]
    ELSE CHOOSE x \in {clearStep(acc, volumes[n], n, fault) :
                          acc \in {clearLoop(volumes, n - 1, data, fault)}} : TRUE

resetFinish(volumes, backup, loop) ==
    [root |-> backup.root, data |-> loop.data, err |-> loop.err,
     calls |-> backup.calls,
     trace |-> backup.trace \o StopContainers(volumes) \o loop.trace
                   \o StartContainers(volumes)]

Reset(r, data, t, id, volumes, cfg, cfault, fault) ==
    CHOOSE x \in
      {resetFinish(volumes, backup, loop) :
         backup \in {Backup(r, data, t, id, PreResetName(t), volumes, cfg, cfault)},
         loop \in {clearLoop(volumes, Len(volumes), data, fault)}} : TRUE

\* Delete through os.Remove-like semantics: a missing path is an error
Delete_Strict(r, name, removeOK) ==
    IF EntryOf(r, name).kind = "absent"
    THEN [root |-> r, err |-> "no such file or directory",
          trace |-> <<Ev("nothing to remove", name)>>]
    ELSE IF removeOK
    THEN [root |-> PutEntry(r, name, Absent), err |-> "",
          trace |-> <<Ev("remove tree", name)>>]
    ELSE [root |-> r, err |-> "remove failed",
          trace |-> <<Ev("remove failed", name)>>]

\* os.RemoveAll: nil when the path does not exist; removeOK is whether the
\* file system lets an existing tree be removed
Delete(r, name, removeOK) ==
    IF EntryOf(r, name).kind = "absent"
    THEN [root |-> r, err |-> "", trace |-> <<Ev("nothing to remove", name)>>]
    ELSE IF removeOK
    THEN [root |-> PutEntry(r, name, Absent), err |-> "",
          trace |-> <<Ev("remove tree", name)>>]
    ELSE [root |-> r, err |-> "remove failed",
          trace |-> <<Ev("remove failed", name)>>]

----------------------------------------------------------------------------
(* The configuration of one invocation (models.Config, loaded per command) *)

Cfg(backup, tags, days) ==
    [BackupBeforeRestore |-> backup, DefaultTags |-> tags, RetentionDays |-> days]

DefaultConfig == Cfg(TRUE, <<>>, 0)

Cfgs == {Cfg(b, <<>>, 0) : b \in BOOLEAN}

----------------------------------------------------------------------------
(* Actions.  A caller of the Manager (a command, a test) runs one of its   *)
(* operations to its end (DoCreate, DoRestore, DoReset, DoDelete), with    *)
(* any arguments, and then exits (Exit); between calls the services write  *)
(* to their volumes and the user may touch the snapshot root.              *)

Result(op, name, vols, cfg, err, snap) ==
    [op |-> op, name |-> name, vols |-> vols, cfg |-> cfg, err |-> err, snap |-> snap]

Idle == Result("idle", <<>>, <<>>, DefaultConfig, "", NoSnap)

NotFresh == [only |-> FALSE, names |-> {}]

Init ==
    /\ root = EmptyRoot
    /\ volData = [v \in VolNames |-> 1]
    /\ now \in Times
    /\ nextId = 0
    /\ trace = <<>>
    /\ ret = Idle
    /\ fresh = [only |-> TRUE, names |-> {}]

DoCreate ==
    /\ ret = Idle
    /\ nextId < MaxCreates
    /\ \E name \in UserNames, volumes \in VolLists :
         \E fault \in CreateFaults(volumes) :
           \E c \in {CreateWithOptions(root, volData, now, nextId + 1, name, volumes,
                                       NoOpts, DefaultConfig, fault)} :
             /\ root' = c.root
             /\ nextId' = nextId + 1
             /\ trace' = c.trace
             /\ ret' = Result("Create", name, volumes, DefaultConfig, c.err, c.snap)
             /\ fresh' = IF fresh.only /\ c.err = "" /\ name \notin fresh.names
                         THEN [fresh EXCEPT !.names = @ \cup {name}] ELSE NotFresh
             /\ UNCHANGED <<volData, now>>

DoRestore ==
    /\ ret = Idle
    /\ \E name \in Names, cfg \in Cfgs :
         \E loaded \in {loadMetadata(root, name)} :
           \E cfault \in (IF loaded.err = "" /\ cfg.BackupBeforeRestore
                          THEN CreateFaults(loaded.snap.Volumes) ELSE {NoFault}),
              fault \in (IF loaded.err = ""
                         THEN LoopFaults(loaded.snap.Volumes) ELSE {NoFault}) :
             \E x \in {Restore(root, volData, now, nextId + 1, name, cfg, cfault, fault)} :
               /\ nextId + x.calls <= MaxCreates
               /\ root' = x.root
               /\ volData' = x.data
               /\ nextId' = nextId + x.calls
               /\ trace' = x.trace
               /\ ret' = Result("Restore", name, loaded.snap.Volumes, cfg, x.err, NoSnap)
               /\ fresh' = NotFresh
               /\ UNCHANGED now

DoReset ==
    /\ ret = Idle
    /\ \E volumes \in {Detected}, cfg \in Cfgs :
         \E cfault \in (IF cfg.BackupBeforeRestore
                        THEN CreateFaults(volumes) ELSE {NoFault}),
            fault \in LoopFaults(volumes) :
           \E x \in {Reset(root, volData, now, nextId + 1, volumes, cfg, cfault, fault)} :
             /\ nextId + x.calls <= MaxCreates
             /\ root' = x.root
             /\ volData' = x.data
             /\ nextId' = nextId + x.calls
             /\ trace' = x.trace
             /\ ret' = Result("Reset", <<>>, volumes, cfg, x.err, NoSnap)
             /\ fresh' = NotFresh
             /\ UNCHANGED now

DoDelete ==
    /\ ret = Idle
    /\ \E name \in Names, removeOK \in BOOLEAN :
         \E x \in {Delete(root, name, removeOK)} :
           /\ (EntryOf(root, name).kind = "absent" => removeOK)
           /\ root' = x.root
           /\ trace' = x.trace
           /\ ret' = Result("Delete", name, <<>>, DefaultConfig, x.err, NoSnap)
           /\ fresh' = NotFresh
           /\ UNCHANGED <<volData, now, nextId>>

\* the caller is done with the result
Exit ==
    /\ ret # Idle
    /\ ret' = Idle
    /\ trace' = <<>>
    /\ UNCHANGED <<root, volData, now, nextId, fresh>>

\* the services of the stack write to their volumes
AppWrite ==
    /\ ret = Idle
    /\ \E v \in VolNames :
         /\ volData[v] < MaxData
         /\ volData' = [volData EXCEPT ![v] = @ + 1]
         /\ UNCHANGED <<root, now, nextId, trace, ret, fresh>>

\* the user puts a plain file into the snapshot root
UserFile ==
    /\ ret = Idle
    /\ \A n \in Names : EntryOf(root, n).kind # "file"
    /\ \E name \in UserNames :
         /\ EntryOf(root, name).kind = "absent"
         /\ root' = PutEntry(root, name, PlainFile)
         /\ fresh' = NotFresh
         /\ UNCHANGED <<volData, now, nextId, trace, ret>>

\* a metadata.yaml is damaged (edited by hand, cut short)
Corrupt ==
    /\ ret = Idle
    /\ \E name \in UserNames :
         /\ EntryOf(root, name).kind = "dir"
         /\ EntryOf(root, name).meta.state = "yaml"
         /\ root' = PutEntry(root, name, [EntryOf(root, name) EXCEPT !.meta = Malformed])
         /\ fresh' = NotFresh
         /\ UNCHANGED <<volData, now, nextId, trace, ret>>

Next ==
    \/ DoCreate
    \/ DoRestore
    \/ DoReset
    \/ DoDelete
    \/ Exit
    \/ AppWrite
    \/ UserFile
    \/ Corrupt

Spec == Init /\ [][Next]_vars

----------------------------------------------------------------------------
(* Reading the trace of an operation.  A Create call spans the events from *)
(* its "Create" event to its "return" or "return error" event; Restore and *)
(* Reset hold at most one such span, the backup, at the head of the trace. *)

Returns == {"return", "return error"}

FrameEnd(tr) == CHOOSE j \in 1..Len(tr) :
                    /\ tr[j].e \in Returns
                    /\ \A k \in 1..(j - 1) : tr[k].e \notin Returns

HasFrame(tr) == tr # <<>> /\ tr[1].e = "Create"

\* the events of the Create call at the head of the trace
Frame(tr) == IF HasFrame(tr) THEN SubSeq(tr, 1, FrameEnd(tr)) ELSE <<>>

\* the events of the operation itself, after the backup
Outer(tr) == IF HasFrame(tr) THEN SubSeq(tr, FrameEnd(tr) + 1, Len(tr)) ELSE tr

Events(tr, kinds) == SelectSeq(tr, LAMBDA ev : ev.e \in kinds)

Targets(tr, kinds) ==
    [i \in 1..Len(Events(tr, kinds)) |-> Events(tr, kinds)[i].a]

Positions(tr, kinds) == {i \in 1..Len(tr) : tr[i].e \in kinds}

IsPrefix(s, t) == Len(s) <= Len(t) /\ s = SubSeq(t, 1, Len(s))

\* within one span: every container that was stopped is started again, in
\* the same order, and after the last stop
Resumed(seg) ==
    /\ Targets(seg, {"docker start"}) = Targets(seg, {"docker stop"})
    /\ \A i \in Positions(seg, {"docker stop"}), j \in Positions(seg, {"docker start"}) :
         i < j

----------------------------------------------------------------------------
(* C1: in Create, Restore and Reset, once the containers of the volumes    *)
(* have been asked to stop, the same containers are asked to start again   *)
(* before the operation returns, on every exit path: the stop requests of  *)
(* a call are those of its volume list, and its start requests repeat them *)
(* after the last export, import or clear, failed or not.                  *)

Work == {"export", "export failed", "import", "import failed",
         "clear", "clear failed", "write metadata"}

\* no export, import, clear or write of the span comes after a start request
StartsLast(seg) ==
    \A i \in Positions(seg, {"docker start"}), j \in Positions(seg, Work) : j < i

C1_ResumeOnEveryExit ==
    ret.op \in {"Create", "Restore", "Reset"} =>
        /\ Resumed(Frame(trace)) /\ StartsLast(Frame(trace))
        /\ Resumed(Outer(trace)) /\ StartsLast(Outer(trace))
        /\ ret.op = "Create" /\ Positions(trace, {"mkdir"}) # {} =>
               Events(trace, {"docker stop"}) = StopContainers(ret.vols)
        /\ ret.op \in {"Restore", "Reset"} /\ trace # <<>> =>
               Events(Outer(trace), {"docker stop"}) = StopContainers(ret.vols)

\* a Create that stopped a container, failed to export the first volume and
\* started the container again before it returned
C1_Witness ==
    /\ ret.op = "Create"
    /\ ret.err = "failed to export volume"
    /\ Targets(trace, {"export failed"}) = <<VolA.Name>>
    /\ Targets(trace, {"docker stop"}) = <<VolA.ContainerName>>
    /\ trace[Len(trace) - 1].e = "docker start"

----------------------------------------------------------------------------
(* C2: a snapshot directory that holds a readable metadata record is       *)
(* complete: every volume listed in the record has its archive in the      *)
(* directory, and that archive was written by the same successful Create   *)
(* that wrote the record.                                                  *)

Readable(r, name) == loadMetadata(r, name).err = ""

C2_RecordMeansComplete ==
    \A name \in Names :
        Readable(root, name) =>
            \A i \in 1..Len(Get(root, name).snap.Volumes) :
                LET tarPath == TarPath(Get(root, name).snap.Volumes[i])
                    dir == EntryOf(root, name)
                IN /\ tarPath \in DOMAIN dir.files
                   /\ dir.files[tarPath].by = dir.meta.by

----------------------------------------------------------------------------
(* C3: in Create, when the export of a volume fails, no export is          *)
(* attempted for any later volume of the list, the call returns an error   *)
(* and no snapshot, and the call writes no metadata record.  This is       *)
(* stated of every Create call, the backup of Restore and Reset included.  *)

\* the Create call of the last operation, if it made one
CreateSpan == IF ret.op = "Create" THEN trace ELSE Frame(trace)

C3_ExportFailureAborts ==
    Positions(CreateSpan, {"export failed"}) # {} =>
        /\ \A i \in Positions(CreateSpan, {"export failed"}),
              j \in Positions(CreateSpan, {"export", "export failed", "write metadata"}) :
                j <= i
        /\ CreateSpan[Len(CreateSpan)].e = "return error"
        /\ Positions(CreateSpan, {"write metadata"}) = {}
        /\ LET meta == EntryOf(root, CreateSpan[1].a).meta
           IN ~(meta.state = "yaml" /\ meta.by = nextId)
        /\ ret.op = "Create" =>
               ret.err = "failed to export volume" /\ ret.snap = NoSnap

\* a Create of two volumes whose first export failed: the second volume was
\* not exported
C3_Witness ==
    /\ ret.op = "Create"
    /\ VolumeNames(ret.vols) = <<VolA.Name, VolB.Name>>
    /\ Targets(trace, {"export", "export failed"}) = <<VolA.Name>>
    /\ Targets(trace, {"export failed"}) = <<VolA.Name>>
    /\ ret.err # ""

----------------------------------------------------------------------------
(* C4: when Create(name, volumes) succeeds, a Get(name) that follows at    *)
(* once succeeds and returns a record whose name is `name`, whose volume   *)
(* list has the names of `volumes` in the same order, and whose total size *)
(* is >= 0; and after N successful Creates with N distinct names on an     *)
(* empty root, List returns exactly N records.                             *)

----------------------------------------------------------------------------
(* C5: Restore(name) on a name whose metadata record is absent or          *)
(* unreadable returns the error of the load and leaves all state as it     *)
(* was: no backup snapshot is created, no container is stopped or started, *)
(* and no volume is cleared or imported.                                   *)

C5_RestoreOfUnreadableChangesNothing ==
    [][ret.op = "idle" /\ ret'.op = "Restore"
            /\ loadMetadata(root, ret'.name).err # ""
        => /\ ret'.err = loadMetadata(root, ret'.name).err
           /\ root' = root
           /\ volData' = volData
           /\ nextId' = nextId
           /\ trace' = <<>>]_vars

\* a Restore, with the backup enabled, of a snapshot whose record is damaged
C5_Witness ==
    /\ ret.op = "Restore"
    /\ ret.cfg.BackupBeforeRestore
    /\ EntryOf(root, ret.name).meta.state = "malformed"
    /\ ret.err = "invalid snapshot metadata"

----------------------------------------------------------------------------
(* C6: with backup_before_restore enabled, Restore(name) performs a Create *)
(* of a snapshot whose name starts with '_' over the volume list of the    *)
(* restored record before the first import into any volume; when that      *)
(* Create fails, Restore still goes on to import every volume, and its     *)
(* result depends only on the imports.                                     *)

LoadErrors == {"snapshot metadata not found", "invalid snapshot metadata"}

Imports == {"import", "import failed"}

C6_BackupThenImport ==
    ret.op = "Restore" /\ ret.err \notin LoadErrors =>
        /\ ret.cfg.BackupBeforeRestore =>
               /\ HasFrame(trace)
               /\ HasPrefix(trace[1].a, "_")
               /\ trace[1].vols = VolumeNames(ret.vols)
               /\ \A j \in Positions(trace, Imports) : j > FrameEnd(trace)
        /\ ~ret.cfg.BackupBeforeRestore => ~HasFrame(trace)
        /\ Positions(trace, {"import failed"}) = {} =>
               /\ Targets(Outer(trace), Imports) = VolumeNames(ret.vols)
               /\ ret.err = ""
        /\ Positions(trace, {"import failed"}) # {} =>
               ret.err = "failed to import volume"

\* a Restore whose backup failed and which imported both volumes and
\* returned no error
C6_Witness ==
    /\ ret.op = "Restore" /\ ret.err = ""
    /\ ret.cfg.BackupBeforeRestore
    /\ HasFrame(trace)
    /\ trace[FrameEnd(trace)].e = "return error"
    /\ Targets(trace, {"import"}) = <<VolA.Name, VolB.Name>>

----------------------------------------------------------------------------
(* C7: in Restore the volumes are imported one at a time in the order of   *)
(* the snapshot record; when the import of a volume fails, Restore returns *)
(* an error, no later volume is imported (the later volumes keep their     *)
(* contents), and the volumes already imported keep the contents imported  *)
(* from their archives: nothing is rolled back.                            *)

C7_ImportsInRecordOrder ==
    [][ret.op = "idle" /\ ret'.op = "Restore" /\ loadMetadata(root, ret'.name).err = ""
        => LET record == loadMetadata(root, ret'.name).snap.Volumes
               tried == Targets(trace', Imports)
               done == Targets(trace', {"import"})
           IN /\ IsPrefix(tried, VolumeNames(record))
              /\ IsPrefix(done, tried)
              /\ Len(tried) <= Len(done) + 1
              /\ (ret'.err # "") = (Len(tried) = Len(done) + 1)
              /\ ret'.err = "" => done = VolumeNames(record)
              /\ \A i \in 1..Len(record) :
                   /\ i <= Len(done) =>
                        volData'[record[i].Name]
                            = EntryOf(root', ret'.name).files[TarPath(record[i])].data
                   /\ i > Len(tried) =>
                        volData'[record[i].Name] = volData[record[i].Name]]_vars

\* a Restore that imported the first volume of the record and failed on the
\* second: the first holds what its archive holds
C7_Witness ==
    /\ ret.op = "Restore" /\ ret.err = "failed to import volume"
    /\ Targets(trace, Imports) = <<VolA.Name, VolB.Name>>
    /\ Targets(trace, {"import failed"}) = <<VolB.Name>>
    /\ volData[VolA.Name] = EntryOf(root, ret.name).files[TarPath(VolA)].data

----------------------------------------------------------------------------
(* C8: Reset(volumes) applies the backup policy of Restore (with the       *)
(* backup enabled, a Create named '_...' over `volumes` first, whose       *)
(* failure changes nothing of what follows), then clears the volumes one   *)
(* at a time in list order and imports nothing; when the clear of a        *)
(* volume fails, Reset returns an error, no later volume is cleared (the   *)
(* later volumes keep their contents), and the volumes already cleared     *)
(* stay cleared.                                                           *)

Clears == {"clear", "clear failed"}

C8_ResetClearsInOrder ==
    [][ret.op = "idle" /\ ret'.op = "Reset"
        => LET volumes == ret'.vols
               tried == Targets(trace', Clears)
               done == Targets(trace', {"clear"})
           IN /\ ret'.cfg.BackupBeforeRestore =>
                    /\ HasFrame(trace')
                    /\ HasPrefix(trace'[1].a, "_")
                    /\ trace'[1].vols = VolumeNames(volumes)
                    /\ \A j \in Positions(trace', Clears) : j > FrameEnd(trace')
              /\ ~ret'.cfg.BackupBeforeRestore => ~HasFrame(trace')
              /\ Positions(trace', Imports) = {}
              /\ IsPrefix(tried, VolumeNames(volumes))
              /\ IsPrefix(done, tried)
              /\ Len(tried) <= Len(done) + 1
              /\ (ret'.err # "") = (Len(tried) = Len(done) + 1)
              /\ ret'.err = "" => done = VolumeNames(volumes)
              /\ ret'.err # "" => ret'.err = "failed to clear volume"
              /\ \A i \in 1..Len(volumes) :
                   /\ i <= Len(done) => volData'[volumes[i].Name] = 0
                   /\ i > Len(tried) =>
                        volData'[volumes[i].Name] = volData[volumes[i].Name]]_vars

\* a Reset whose backup failed, which cleared the first volume and failed to
\* clear the second, left as it was
C8_Witness ==
    /\ ret.op = "Reset" /\ ret.err = "failed to clear volume"
    /\ HasFrame(trace) /\ trace[FrameEnd(trace)].e = "return error"
    /\ Targets(trace, {"clear"}) = <<VolA.Name>>
    /\ Targets(trace, {"clear failed"}) = <<VolB.Name>>
    /\ volData[VolA.Name] = 0
    /\ volData[VolB.Name] > 0

----------------------------------------------------------------------------
(* C9: Delete(name) never fails when the snapshot does not exist: a name   *)
(* that was never created, or that was deleted before, is deleted with no  *)
(* error; and after any successful Delete(name) the directory tree (record *)
(* and archives) is gone, Get(name) fails, List does not contain `name`,   *)
(* and a second Delete(name) succeeds.                                     *)

Listed(r) == {List(r).snaps[i].Path : i \in 1..Len(List(r).snaps)}
                 \cup {List(r).snaps[i].Name : i \in 1..Len(List(r).snaps)}

C9_DeleteIdempotent ==
    [][ret.op = "idle" /\ ret'.op = "Delete"
        => /\ EntryOf(root, ret'.name).kind = "absent" =>
                 ret'.err = "" /\ root' = root
           /\ ret'.err = "" =>
                 /\ EntryOf(root', ret'.name) = Absent
                 /\ Get(root', ret'.name).err # ""
                 /\ ret'.name \notin Listed(root')
                 /\ \A removeOK \in BOOLEAN :
                      Delete(root', ret'.name, removeOK).err = ""]_vars

\* a Delete that removed the tree of a snapshot, while another snapshot is
\* still listed
C9_Witness ==
    /\ ret.op = "Delete" /\ ret.err = ""
    /\ trace = <<Ev("remove tree", ret.name)>>
    /\ EntryOf(root, ret.name) = Absent
    /\ Listed(root) # {}

----------------------------------------------------------------------------
(* C10: List returns exactly one record for each immediate subdirectory of *)
(* the snapshot root that holds a readable, well-formed metadata record,   *)
(* and nothing else: plain files and directories with a missing or         *)
(* malformed record are skipped without making List fail, and a missing    *)
(* snapshot root yields an empty list with no error.                       *)

C10_ListExactlyTheReadable ==
    LET snaps == List(root).snaps IN
    /\ List(root).err = ""
    /\ ~root.exists => snaps = <<>>
    /\ \A i \in 1..Len(snaps) :
         /\ snaps[i].Path \in Names
         /\ snaps[i] = loadMetadata(root, snaps[i].Path).snap
    /\ \A name \in Names :
         Cardinality({i \in 1..Len(snaps) : snaps[i].Path = name})
             = IF EntryOf(root, name).kind = "dir" /\ Readable(root, name)
               THEN 1 ELSE 0

\* a root holding a directory with a valid record, a directory with no
\* record, a directory with a malformed record or a plain file: one record
C10_Witness ==
    /\ \E name \in Names : Readable(root, name)
    /\ \E name \in Names :
         EntryOf(root, name).kind = "dir" /\ EntryOf(root, name).meta.state = "none"
    /\ \E name \in Names :
         \/ EntryOf(root, name).kind = "file"
         \/ EntryOf(root, name).meta.state = "malformed"
    /\ Len(List(root).snaps) = 1

----------------------------------------------------------------------------
(* Manager.CleanupOldSnapshots.  `failing` is the set of names whose tree   *)
(* the file system refuses to remove during the sweep.                     *)

\* time.Time.AddDate(0, 0, days)
AddDate(t, days) == t + days * TicksPerDay

\* the loop of lines 393-404 with !s.Timestamp.After(cutoff) for
\* s.Timestamp.Before(cutoff)
RECURSIVE cleanupFrom_NotAfter(_, _, _, _, _)
cleanupFrom_NotAfter(r, snapshots, i, cutoff, failing) ==
    IF i > Len(snapshots) THEN [root |-> r, deleted |-> <<>>]
    ELSE IF HasPrefix(snapshots[i].Name, "_")
    THEN cleanupFrom_NotAfter(r, snapshots, i + 1, cutoff, failing)
    ELSE IF snapshots[i].Timestamp <= cutoff
    THEN LET d == Delete(r, snapshots[i].Name, snapshots[i].Name \notin failing)
             rest == cleanupFrom_NotAfter(d.root, snapshots, i + 1, cutoff, failing)
         IN IF d.err = ""
            THEN [root |-> rest.root, deleted |-> <<snapshots[i].Name>> \o rest.deleted]
            ELSE rest
    ELSE cleanupFrom_NotAfter(r, snapshots, i + 1, cutoff, failing)

\* the loop of lines 393-404 from position i on
RECURSIVE cleanupFrom(_, _, _, _, _)
cleanupFrom(r, snapshots, i, cutoff, failing) ==
    IF i > Len(snapshots) THEN [root |-> r, deleted |-> <<>>]
    ELSE IF HasPrefix(snapshots[i].Name, "_")
    THEN cleanupFrom(r, snapshots, i + 1, cutoff, failing)
    ELSE IF snapshots[i].Timestamp < cutoff
    THEN LET d == Delete(r, snapshots[i].Name, snapshots[i].Name \notin failing)
             rest == cleanupFrom(d.root, snapshots, i + 1, cutoff, failing)
         IN IF d.err = ""
            THEN [root |-> rest.root, deleted |-> <<snapshots[i].Name>> \o rest.deleted]
            ELSE rest
    ELSE cleanupFrom(r, snapshots, i + 1, cutoff, failing)

\* CleanupOldSnapshots with the guard of line 382 as RetentionDays < 0
CleanupOldSnapshots_ZeroSweeps(r, t, cfg, failing) ==
    IF cfg.RetentionDays < 0 THEN [root |-> r, deleted |-> <<>>, err |-> ""]
    ELSE LET swept == cleanupFrom(r, List(r).snaps, 1,
                                  AddDate(t, 0 - cfg.RetentionDays), failing)
         IN [root |-> swept.root, deleted |-> swept.deleted, err |-> List(r).err]

CleanupOldSnapshots(r, t, cfg, failing) ==
    IF cfg.RetentionDays <= 0 THEN [root |-> r, deleted |-> <<>>, err |-> ""]
    ELSE LET swept == cleanupFrom(r, List(r).snaps, 1,
                                  AddDate(t, 0 - cfg.RetentionDays), failing)
         IN [root |-> swept.root, deleted |-> swept.deleted, err |-> List(r).err]

----------------------------------------------------------------------------
(* SpecRetention: the catalog over time.  Snapshots of one volume are      *)
(* created under user names and under an auto-backup name, the clock       *)
(* advances, and the retention sweep runs under any retention setting.     *)

RetentionNames == UserNames \cup {PreRestoreName(0)}

RetentionCfgs == {Cfg(TRUE, <<>>, days) : days \in -1..1}

Swept(cfg, t, failing, deleted, err) ==
    [op |-> "Cleanup", cfg |-> cfg, now |-> t, failing |-> failing,
     deleted |-> deleted, err |-> err]

RetCreate ==
    /\ ret = Idle
    /\ nextId < MaxSnapshots
    /\ \E name \in RetentionNames :
         \E c \in {Create(root, volData, now, nextId + 1, name, <<VolB>>,
                          DefaultConfig, NoFault)} :
           /\ root' = c.root
           /\ nextId' = nextId + 1
           /\ trace' = c.trace
           /\ ret' = Result("Create", name, <<VolB>>, DefaultConfig, c.err, c.snap)
           /\ fresh' = NotFresh
           /\ UNCHANGED <<volData, now>>

DoCleanup ==
    /\ ret = Idle
    /\ \E cfg \in RetentionCfgs, failing \in SUBSET UserNames :
         \E x \in {CleanupOldSnapshots(root, now, cfg, failing)} :
           /\ \A name \in failing : Readable(root, name)
           /\ root' = x.root
           /\ trace' = [i \in 1..Len(x.deleted) |-> Ev("remove tree", x.deleted[i])]
           /\ ret' = Swept(cfg, now, failing, x.deleted, x.err)
           /\ fresh' = NotFresh
           /\ UNCHANGED <<volData, now, nextId>>

\* the clock advances between calls
Tick ==
    /\ ret = Idle
    /\ now < MaxClock
    /\ now' = now + 1
    /\ UNCHANGED <<root, volData, nextId, trace, ret, fresh>>

RetNext ==
    \/ RetCreate
    \/ DoCleanup
    \/ Tick
    \/ Exit

SpecRetention == Init /\ [][RetNext]_vars

----------------------------------------------------------------------------
(* C11: the list returned by List is sorted by timestamp, newest first:    *)
(* for every pair of positions i < j, the timestamp at j is not after the  *)
(* timestamp at i.                                                         *)

C11_ListNewestFirst ==
    \A i, j \in 1..Len(List(root).snaps) :
        i < j => ~(List(root).snaps[j].Timestamp > List(root).snaps[i].Timestamp)

\* three snapshots with three timestamps, the directory order being neither
\* the order of the timestamps nor its reverse
C11_Witness ==
    /\ Len(List(root).snaps) = 3
    /\ EntryOf(root, PreRestoreName(0)).kind = "dir"
    /\ Get(root, <<"s", "1">>).snap.Timestamp > Get(root, PreRestoreName(0)).snap.Timestamp
    /\ Get(root, <<"s", "1">>).snap.Timestamp > Get(root, <<"s", "2">>).snap.Timestamp
    /\ Get(root, <<"s", "2">>).snap.Timestamp # Get(root, PreRestoreName(0)).snap.Timestamp
    /\ List(root).snaps[1].Name = <<"s", "1">>

----------------------------------------------------------------------------
(* Manager.AddTag, RemoveTag, UpdateDescription, UpdateMetadata and        *)
(* saveMetadata.  A metadata map is a function from its keys to their      *)
(* values; writeOK is whether os.WriteFile can open metadata.yaml.         *)

\* saveMetadata with a record that has lost its volume list
saveMetadata_NoVolumes(r, snapshot, writeOK) ==
    IF ~writeOK
    THEN [root |-> r, err |-> "write failed", trace |-> <<>>]
    ELSE [root |-> PutEntry(r, snapshot.Path,
                      [EntryOf(r, snapshot.Path) EXCEPT
                          !.meta = [state |-> "yaml",
                                    doc |-> yamlMarshal([snapshot EXCEPT !.Volumes = <<>>]),
                                    by |-> @.by]]),
          err |-> "", trace |-> <<Ev("write metadata", snapshot.Path)>>]

saveMetadata(r, snapshot, writeOK) ==
    IF ~writeOK
    THEN [root |-> r, err |-> "write failed", trace |-> <<>>]
    ELSE [root |-> PutEntry(r, snapshot.Path,
                      [EntryOf(r, snapshot.Path) EXCEPT
                          !.meta = [state |-> "yaml", doc |-> yamlMarshal(snapshot),
                                    by |-> @.by]]),
          err |-> "", trace |-> <<Ev("write metadata", snapshot.Path)>>]

NotLoaded(r, err) == [root |-> r, err |-> err, trace |-> <<>>]

HasTag(tags, tag) == \E i \in 1..Len(tags) : tags[i] = tag

AddTag(r, name, tag, writeOK) ==
    IF Get(r, name).err # "" THEN NotLoaded(r, Get(r, name).err)
    ELSE IF HasTag(Get(r, name).snap.Tags, tag) THEN NotLoaded(r, "")
    ELSE saveMetadata(r, [Get(r, name).snap EXCEPT !.Tags = Append(@, tag)], writeOK)

RemoveTag(r, name, tag, writeOK) ==
    IF Get(r, name).err # "" THEN NotLoaded(r, Get(r, name).err)
    ELSE saveMetadata(r, [Get(r, name).snap EXCEPT
                             !.Tags = SelectSeq(@, LAMBDA t : t # tag)], writeOK)

UpdateDescription(r, name, description, writeOK) ==
    IF Get(r, name).err # "" THEN NotLoaded(r, Get(r, name).err)
    ELSE saveMetadata(r, [Get(r, name).snap EXCEPT !.Description = description],
                      writeOK)

\* UpdateMetadata with the map replaced instead of merged
UpdateMetadata_Replace(r, name, metadata, writeOK) ==
    IF Get(r, name).err # "" THEN NotLoaded(r, Get(r, name).err)
    ELSE saveMetadata(r, [Get(r, name).snap EXCEPT !.Metadata = metadata], writeOK)

\* lines 316-321: every key of `metadata` is assigned, the others stay
UpdateMetadata(r, name, metadata, writeOK) ==
    IF Get(r, name).err # "" THEN NotLoaded(r, Get(r, name).err)
    ELSE saveMetadata(r, [Get(r, name).snap EXCEPT !.Metadata = metadata @@ @],
                      writeOK)

----------------------------------------------------------------------------
(* SpecTags: snapshots of one volume are created with default and option   *)
(* tags, and their tags, description and metadata are updated.             *)

Tags == {"a", "b"}

DefaultTagLists == {<<>>, <<"a">>}

OptionTagLists == {<<>>, <<"a">>, <<"b", "b">>}

Descriptions == {"", "before upgrade"}

MetadataMaps == {<<>>, "k1" :> "v2", ("k1" :> "v1") @@ ("k2" :> "v1")}

Updated(op, name, arg, err) == [op |-> op, name |-> name, arg |-> arg, err |-> err]

TagCreate ==
    /\ ret = Idle
    /\ nextId < MaxCreates
    /\ \E name \in UserNames, defaults \in DefaultTagLists, tags \in OptionTagLists :
         \E c \in {CreateWithOptions(root, volData, now, nextId + 1, name, <<VolB>>,
                                     [NoOpts EXCEPT !.Tags = tags],
                                     Cfg(TRUE, defaults, 0), NoFault)} :
           /\ root' = c.root
           /\ nextId' = nextId + 1
           /\ trace' = c.trace
           /\ ret' = Result("Create", name, <<VolB>>, Cfg(TRUE, defaults, 0),
                            c.err, c.snap)
           /\ fresh' = NotFresh
           /\ UNCHANGED <<volData, now>>

\* the common part of the four update actions
Update(op, name, arg, x) ==
    /\ root' = x.root
    /\ trace' = x.trace
    /\ ret' = Updated(op, name, arg, x.err)
    /\ fresh' = NotFresh
    /\ UNCHANGED <<volData, now, nextId>>

DoAddTag ==
    /\ ret = Idle
    /\ \E name \in UserNames, tag \in Tags, writeOK \in BOOLEAN :
         Update("AddTag", name, tag, AddTag(root, name, tag, writeOK))

DoRemoveTag ==
    /\ ret = Idle
    /\ \E name \in UserNames, tag \in Tags, writeOK \in BOOLEAN :
         Update("RemoveTag", name, tag, RemoveTag(root, name, tag, writeOK))

DoUpdateDescription ==
    /\ ret = Idle
    /\ \E name \in UserNames, description \in Descriptions, writeOK \in BOOLEAN :
         Update("UpdateDescription", name, description,
                UpdateDescription(root, name, description, writeOK))

DoUpdateMetadata ==
    /\ ret = Idle
    /\ \E name \in UserNames, metadata \in MetadataMaps, writeOK \in BOOLEAN :
         Update("UpdateMetadata", name, metadata,
                UpdateMetadata(root, name, metadata, writeOK))

TagNext ==
    \/ TagCreate
    \/ DoAddTag
    \/ DoRemoveTag
    \/ DoUpdateDescription
    \/ DoUpdateMetadata
    \/ Exit

SpecTags == Init /\ [][TagNext]_vars

----------------------------------------------------------------------------
(* C12: for every existing snapshot and every tag, whatever the tag list   *)
(* of the snapshot was before, calling AddTag(name, tag) twice leaves the  *)
(* tag list with exactly one occurrence of `tag`, and the second call      *)
(* changes nothing.                                                        *)

Count(tags, tag) == Cardinality({i \in 1..Len(tags) : tags[i] = tag})

C12_AddTagTwiceOneOccurrence ==
    \A name \in UserNames, tag \in Tags :
        Readable(root, name) =>
            LET once == AddTag(root, name, tag, TRUE).root
                twice == AddTag(once, name, tag, TRUE).root
            IN /\ Count(Get(twice, name).snap.Tags, tag) = 1
               /\ twice = once

----------------------------------------------------------------------------
(* C13: in every reachable state, the tag list of every snapshot record    *)
(* contains no tag twice, the record written by Create included, when a    *)
(* tag appears both in the default tags of the config and in the tags of   *)
(* the options, or twice in either list.                                   *)

C13_NoTagTwice ==
    \A name \in Names :
        Readable(root, name) =>
            \A tag \in Tags : Count(Get(root, name).snap.Tags, tag) <= 1

----------------------------------------------------------------------------
(* C14: UpdateMetadata(name, m) merges: afterwards the metadata map of the *)
(* snapshot holds m's value for every key of m, and for every key not in m *)
(* the value it held before; no key is removed.                            *)

C14_UpdateMetadataMerges ==
    [][ret.op = "idle" /\ ret'.op = "UpdateMetadata" /\ ret'.err = ""
        => LET old == Get(root, ret'.name).snap.Metadata
               new == Get(root', ret'.name).snap.Metadata
               m == ret'.arg
           IN /\ DOMAIN new = DOMAIN old \cup DOMAIN m
              /\ \A k \in DOMAIN m : new[k] = m[k]
              /\ \A k \in DOMAIN old \ DOMAIN m : new[k] = old[k]]_vars

\* an UpdateMetadata of the key k1 on a snapshot that holds k1 and k2: k1 has
\* the new value, k2 the value it had
C14_Witness ==
    /\ ret.op = "UpdateMetadata" /\ ret.err = ""
    /\ ret.arg = ("k1" :> "v2")
    /\ trace = <<Ev("write metadata", ret.name)>>
    /\ Get(root, ret.name).snap.Metadata = ("k1" :> "v2") @@ ("k2" :> "v1")

----------------------------------------------------------------------------
(* C15: AddTag, RemoveTag, UpdateDescription and UpdateMetadata on the     *)
(* snapshot `name` change only their own field of the record of that       *)
(* snapshot: its name, timestamp, volume list, sizes and archive files are *)
(* unchanged, and no other snapshot is changed; on an absent snapshot each *)
(* returns an error and writes nothing.                                    *)

UpdateOps == {"AddTag", "RemoveTag", "UpdateDescription", "UpdateMetadata"}

C15_UpdatesChangeOwnFieldOnly ==
    [][ret.op = "idle" /\ ret'.op \in UpdateOps
        => LET name == ret'.name
               old == Get(root, name)
               new == Get(root', name)
           IN /\ volData' = volData
              /\ \A other \in Names \ {name} :
                   EntryOf(root', other) = EntryOf(root, other)
              /\ old.err # "" =>
                   ret'.err # "" /\ root' = root /\ trace' = <<>>
              /\ old.err = "" =>
                   /\ new.err = ""
                   /\ new.snap.Name = old.snap.Name
                   /\ new.snap.Timestamp = old.snap.Timestamp
                   /\ new.snap.Volumes = old.snap.Volumes
                   /\ new.snap.SizeBytes = old.snap.SizeBytes
                   /\ EntryOf(root', name).files = EntryOf(root, name).files
                   /\ ret'.op \notin {"AddTag", "RemoveTag"} =>
                        new.snap.Tags = old.snap.Tags
                   /\ ret'.op # "UpdateDescription" =>
                        new.snap.Description = old.snap.Description
                   /\ ret'.op # "UpdateMetadata" =>
                        new.snap.Metadata = old.snap.Metadata]_vars

\* a RemoveTag that rewrote the record of a snapshot carrying a description,
\* metadata and another tag, next to a second snapshot
C15_Witness ==
    /\ ret.op = "RemoveTag" /\ ret.err = ""
    /\ trace = <<Ev("write metadata", ret.name)>>
    /\ Get(root, ret.name).snap.Description # ""
    /\ Get(root, ret.name).snap.Metadata # <<>>
    /\ Get(root, ret.name).snap.Tags # <<>>
    /\ Get(root, ret.name).snap.Volumes # <<>>
    /\ \E other \in UserNames \ {ret.name} : Readable(root, other)

----------------------------------------------------------------------------
(* C16: when the configured retention is 0 or a negative number of days,   *)
(* CleanupOldSnapshots deletes no snapshot, returns an empty list and no   *)
(* error, and leaves the catalog unchanged, whatever the age of the        *)
(* snapshots.                                                              *)

C16_NoRetentionNoSweep ==
    [][ret.op = "idle" /\ ret'.op = "Cleanup" /\ ret'.cfg.RetentionDays <= 0
        => /\ ret'.deleted = <<>>
           /\ ret'.err = ""
           /\ root' = root
           /\ volData' = volData]_vars

\* a sweep with retention 0 over a catalog whose snapshot is two days old
C16_Witness ==
    /\ ret.op = "Cleanup"
    /\ ret.cfg.RetentionDays = 0
    /\ ret.now = 2 * TicksPerDay
    /\ Readable(root, <<"s", "1">>)
    /\ Get(root, <<"s", "1">>).snap.Timestamp = 0

----------------------------------------------------------------------------
(* C17: with a retention of D > 0 days, CleanupOldSnapshots deletes        *)
(* exactly the catalog snapshots whose name does not start with '_' and    *)
(* whose timestamp is strictly before now minus D days (one whose removal  *)
(* the file system refuses stays, and is not named), and returns exactly   *)
(* the names it deleted: a snapshot at or after the cutoff is retained,    *)
(* and a snapshot whose name starts with '_' is retained whatever its age. *)

Range(seq) == {seq[i] : i \in 1..Len(seq)}

----------------------------------------------------------------------------
(* The classifier (Client.inferDatastoreType).  An image and a mount path  *)
(* are sequences of characters; a hint and a kind are DatastoreType values.*)

Uppers == <<"A", "B", "C", "D", "E", "F", "G", "H", "I", "J", "K", "L", "M", "N", "O", "P", "Q", "R", "S", "T", "U", "V", "W", "X", "Y", "Z">>
Lowers == <<"a", "b", "c", "d", "e", "f", "g", "h", "i", "j", "k", "l", "m", "n", "o", "p", "q", "r", "s", "t", "u", "v", "w", "x", "y", "z">>

\* strings.ToLower, on the letters A-Z
ToLower(s) ==
    [i \in 1..Len(s) |->
        IF \E k \in 1..Len(Uppers) : Uppers[k] = s[i]
        THEN Lowers[CHOOSE k \in 1..Len(Uppers) : Uppers[k] = s[i]]
        ELSE s[i]]

\* strings.Contains
Contains(s, substr) ==
    \E i \in 0..(Len(s) - Len(substr)) : SubSeq(s, i + 1, i + Len(substr)) = substr

DatastorePostgres == "postgres"
DatastoreMySQL == "mysql"
DatastoreRedis == "redis"
DatastoreMongoDB == "mongodb"
DatastoreNeo4j == "neo4j"
DatastoreGeneric == "generic"

\* the keywords of lines 150-158 and 164-172
KwPostgres == <<"p", "o", "s", "t", "g", "r", "e", "s">>
KwMysql == <<"m", "y", "s", "q", "l">>
KwMariadb == <<"m", "a", "r", "i", "a", "d", "b">>
KwRedis == <<"r", "e", "d", "i", "s">>
KwMongo == <<"m", "o", "n", "g", "o">>
KwNeo4j == <<"n", "e", "o", "4", "j">>
KwPostgresql == <<"p", "o", "s", "t", "g", "r", "e", "s", "q", "l">>
KwPgdata == <<"p", "g", "d", "a", "t", "a">>

\* inferDatastoreType with the mount path switch before the image switch
inferDatastoreType_MountFirst(image, mountPath, hint) ==
    IF hint # "" THEN hint
    ELSE LET imageLower == ToLower(image)
         IN IF Contains(mountPath, KwPostgresql) \/ Contains(mountPath, KwPgdata)
                 THEN DatastorePostgres
            ELSE IF Contains(mountPath, KwMysql) THEN DatastoreMySQL
            ELSE IF Contains(mountPath, KwRedis) THEN DatastoreRedis
            ELSE IF Contains(mountPath, KwMongo) THEN DatastoreMongoDB
            ELSE IF Contains(mountPath, KwNeo4j) THEN DatastoreNeo4j
            ELSE IF Contains(imageLower, KwPostgres) THEN DatastorePostgres
            ELSE IF Contains(imageLower, KwMysql) \/ Contains(imageLower, KwMariadb)
                 THEN DatastoreMySQL
            ELSE IF Contains(imageLower, KwRedis) THEN DatastoreRedis
            ELSE IF Contains(imageLower, KwMongo) THEN DatastoreMongoDB
            ELSE IF Contains(imageLower, KwNeo4j) THEN DatastoreNeo4j
            ELSE DatastoreGeneric

\* inferDatastoreType with the mount path matched against the keywords of
\* the image switch
inferDatastoreType_ImageKeywords(image, mountPath, hint) ==
    IF hint # "" THEN hint
    ELSE LET imageLower == ToLower(image)
         IN IF Contains(imageLower, KwPostgres) THEN DatastorePostgres
            ELSE IF Contains(imageLower, KwMysql) \/ Contains(imageLower, KwMariadb)
                 THEN DatastoreMySQL
            ELSE IF Contains(imageLower, KwRedis) THEN DatastoreRedis
            ELSE IF Contains(imageLower, KwMongo) THEN DatastoreMongoDB
            ELSE IF Contains(imageLower, KwNeo4j) THEN DatastoreNeo4j
            ELSE IF Contains(mountPath, KwPostgres) THEN DatastorePostgres
            ELSE IF Contains(mountPath, KwMysql) \/ Contains(mountPath, KwMariadb)
                 THEN DatastoreMySQL
            ELSE IF Contains(mountPath, KwRedis) THEN DatastoreRedis
            ELSE IF Contains(mountPath, KwMongo) THEN DatastoreMongoDB
            ELSE IF Contains(mountPath, KwNeo4j) THEN DatastoreNeo4j
            ELSE DatastoreGeneric

inferDatastoreType(image, mountPath, hint) ==
    IF hint # "" THEN hint
    ELSE LET imageLower == ToLower(image)
         IN IF Contains(imageLower, KwPostgres) THEN DatastorePostgres
            ELSE IF Contains(imageLower, KwMysql) \/ Contains(imageLower, KwMariadb)
                 THEN DatastoreMySQL
            ELSE IF Contains(imageLower, KwRedis) THEN DatastoreRedis
            ELSE IF Contains(imageLower, KwMongo) THEN DatastoreMongoDB
            ELSE IF Contains(imageLower, KwNeo4j) THEN DatastoreNeo4j
            ELSE IF Contains(mountPath, KwPostgresql) \/ Contains(mountPath, KwPgdata)
                 THEN DatastorePostgres
            ELSE IF Contains(mountPath, KwMysql) THEN DatastoreMySQL
            ELSE IF Contains(mountPath, KwRedis) THEN DatastoreRedis
            ELSE IF Contains(mountPath, KwMongo) THEN DatastoreMongoDB
            ELSE IF Contains(mountPath, KwNeo4j) THEN DatastoreNeo4j
            ELSE DatastoreGeneric

\* images of a compose service: one per keyword, one in capitals, two that
\* hold keywords of two groups, two that hold none
Images ==
    { KwPostgres, KwMysql, KwMariadb, KwRedis, KwMongo, KwNeo4j,
      <<"P", "o", "s", "t", "g", "r", "e", "s">>, <<"M", "A", "R", "I", "A", "D", "B">>,
      KwRedis \o <<"-">> \o KwPostgres, KwMongo \o <<"-">> \o KwMariadb,
      KwNeo4j \o <<"-">> \o KwRedis,
      <<"n", "g", "i", "n", "x">>, <<>> }

\* mount paths: one per keyword of either switch, one in capitals, one that
\* holds keywords of two groups, one that holds none
MountPaths ==
    { <<"/">> \o kw : kw \in { KwPostgresql, KwPgdata, KwPostgres, KwMysql, KwMariadb,
                               KwRedis, KwMongo, KwNeo4j } }
    \cup { <<"/", "M", "y", "S", "Q", "L">>, <<"/">> \o KwNeo4j \o <<"/">> \o KwMysql, <<"/", "d", "a", "t", "a">> }

\* values of Config.DatastoreHints[volumeName]; the empty string is the
\* value of a missing key
Hints == {"", DatastoreRedis, DatastoreGeneric}

Classified(image, mountPath, hint, kind) ==
    [op |-> "inferDatastoreType", image |-> image, mountPath |-> mountPath,
     hint |-> hint, kind |-> kind]

\* the arguments of one call
ClassifyInit ==
    /\ root = EmptyRoot
    /\ volData = [v \in VolNames |-> 1]
    /\ now = 0
    /\ nextId = 0
    /\ trace = <<>>
    /\ fresh = NotFresh
    /\ ret \in { [op |-> "call", image |-> image, mountPath |-> mountPath, hint |-> hint] :
                   image \in Images, mountPath \in MountPaths, hint \in Hints }

\* the call returns
DoInfer ==
    /\ ret.op = "call"
    /\ ret' = Classified(ret.image, ret.mountPath, ret.hint,
                         inferDatastoreType(ret.image, ret.mountPath, ret.hint))
    /\ UNCHANGED <<root, volData, now, nextId, trace, fresh>>

ClassifyNext == DoInfer

SpecClassify == ClassifyInit /\ [][ClassifyNext]_vars

----------------------------------------------------------------------------
(* C18: classifier precedence.  A non-empty hint is returned as the kind   *)
(* even when the image matches another kind; with no hint, a kind matched  *)
(* by the image is returned even when the mount path matches a different   *)
(* kind, and among the image keywords the order postgres, mysql/mariadb,   *)
(* redis, mongo, neo4j decides; with no hint and no match in image or      *)
(* mount path the result is generic.                                       *)

\* the keyword groups of the image, in order, with their kinds
ImageGroups ==
    << [kind |-> DatastorePostgres, keywords |-> {KwPostgres}],
       [kind |-> DatastoreMySQL, keywords |-> {KwMysql, KwMariadb}],
       [kind |-> DatastoreRedis, keywords |-> {KwRedis}],
       [kind |-> DatastoreMongoDB, keywords |-> {KwMongo}],
       [kind |-> DatastoreNeo4j, keywords |-> {KwNeo4j}] >>

\* the keyword groups of the mount path, in order, with their kinds
MountGroups ==
    << [kind |-> DatastorePostgres, keywords |-> {KwPostgresql, KwPgdata}],
       [kind |-> DatastoreMySQL, keywords |-> {KwMysql}],
       [kind |-> DatastoreRedis, keywords |-> {KwRedis}],
       [kind |-> DatastoreMongoDB, keywords |-> {KwMongo}],
       [kind |-> DatastoreNeo4j, keywords |-> {KwNeo4j}] >>

Matches(s, group) == \E kw \in group.keywords : Contains(s, kw)

\* the kind of the first group of `groups` with a keyword in s
FirstMatch(s, groups) ==
    IF \E g \in 1..Len(groups) : Matches(s, groups[g])
    THEN groups[CHOOSE g \in 1..Len(groups) :
                  /\ Matches(s, groups[g])
                  /\ \A h \in 1..(g - 1) : ~Matches(s, groups[h])].kind
    ELSE DatastoreGeneric

C18_ClassifierPrecedence ==
    ret.op = "inferDatastoreType" =>
        /\ ret.hint # "" => ret.kind = ret.hint
        /\ ret.hint = "" /\ FirstMatch(ToLower(ret.image), ImageGroups) # DatastoreGeneric
             => ret.kind = FirstMatch(ToLower(ret.image), ImageGroups)
        /\ ( /\ ret.hint = ""
             /\ FirstMatch(ToLower(ret.image), ImageGroups) = DatastoreGeneric
             /\ FirstMatch(ret.mountPath, MountGroups) = DatastoreGeneric )
             => ret.kind = DatastoreGeneric

\* no hint, an image with the keywords redis and postgres, a mount path with
\* the keyword mysql: the result is postgres
C18_Witness ==
    /\ ret.op = "inferDatastoreType"
    /\ ret.hint = ""
    /\ ret.image = KwRedis \o <<"-">> \o KwPostgres
    /\ ret.mountPath = <<"/">> \o KwMysql
    /\ ret.kind = DatastorePostgres

----------------------------------------------------------------------------
(* C19: when there is no hint and the image matches no keyword, the mount  *)
(* path is matched, as written, against the ordered keyword groups of the  *)
(* mount path (postgresql/pgdata, mysql, redis, mongo, neo4j): the result  *)
(* is the kind of the first group with a keyword in the mount path         *)
(* (postgres, mysql, redis, mongodb, neo4j), and generic when there is     *)
(* none.                                                                   *)

C19_MountPathOwnKeywords ==
    ( /\ ret.op = "inferDatastoreType"
      /\ ret.hint = ""
      /\ FirstMatch(ToLower(ret.image), ImageGroups) = DatastoreGeneric )
    => ret.kind = FirstMatch(ret.mountPath, MountGroups)

\* C19 as stated: a mount path with a keyword of an image group gets the kind
\* an image with that keyword gets
C19_MountPathSameKeywords ==
    ( /\ ret.op = "inferDatastoreType"
      /\ ret.hint = ""
      /\ FirstMatch(ToLower(ret.image), ImageGroups) = DatastoreGeneric
      /\ FirstMatch(ret.mountPath, ImageGroups) # DatastoreGeneric )
    => ret.kind = FirstMatch(ret.mountPath, ImageGroups)

\* no hint, an image without a keyword, a mount path with the keywords neo4j
\* and mysql: the result is mysql
C19_Witness ==
    /\ ret.op = "inferDatastoreType"
    /\ ret.hint = ""
    /\ ret.image = <<"n", "g", "i", "n", "x">>
    /\ ret.mountPath = <<"/">> \o KwNeo4j \o <<"/">> \o KwMysql
    /\ ret.kind = DatastoreMySQL

----------------------------------------------------------------------------
(* Volume detection (Client.DetectComposeVolumes).  A volume reference and *)
(* a mount entry of a service are sequences of characters.                 *)

\* strings.Split: the pieces of s between the occurrences of sep
RECURSIVE Split(_, _)
Split(s, sep) ==
    IF \E i \in 1..Len(s) : s[i] = sep
    THEN LET i == CHOOSE k \in 1..Len(s) : s[k] = sep /\ \A j \in 1..(k - 1) : s[j] # sep
         IN <<SubSeq(s, 1, i - 1)>> \o Split(SubSeq(s, i + 1, Len(s)), sep)
    ELSE <<s>>

contains(slice, item) == \E i \in 1..Len(slice) : slice[i] = item

RefA == <<"a">>
RefB == <<"b">>
Refs == {RefA, RefB}

\* entries of a service's volumes list: a:/pgdata, b:/d, b:/d:ro, the bind
\* mounts ./x:/d and /x:/d, and the anonymous volume /d
MountA == RefA \o <<":", "/">> \o KwPgdata
MountB == RefB \o <<":", "/", "d">>
MountBMode == RefB \o <<":", "/", "d", ":", "r", "o">>
BindDot == <<".", "/", "x", ":", "/", "d">>
BindRoot == <<"/", "x", ":", "/", "d">>
Anonymous == <<"/", "d">>

ComposeService(image, containerName, volumes) ==
    [Image |-> image, ContainerName |-> containerName, Volumes |-> volumes]

\* the services of a manifest: db, alone or with cache
ServiceMaps ==
    { "db" :> ComposeService(KwPostgres, <<"db">>, mounts) :
        mounts \in { <<MountA>>, <<MountA, BindDot>>, <<MountBMode, MountA>>,
                     <<Anonymous, BindRoot>> } }
    \cup
    { ("db" :> ComposeService(<<"n", "g", "i", "n", "x">>, <<"db">>, <<MountA, MountB>>))
        @@ ("cache" :> ComposeService(KwRedis, <<>>, mounts)) :
        mounts \in { <<MountB>>, <<MountA>> } }

\* the top-level volumes section of a manifest: no such key, the key with no
\* value, or a mapping with the given keys
Section(kind, keys) == [kind |-> kind, keys |-> keys]

Sections ==
    { Section("absent", {}), Section("null", {}) }
    \cup { Section("mapping", keys) : keys \in {{}, {RefA}, {RefA, RefB}} }

\* the contents of a file
Manifest(kind, services, volumes) ==
    [kind |-> kind, services |-> services, volumes |-> volumes]

Manifests ==
    { Manifest("yaml", services, volumes) : services \in ServiceMaps, volumes \in Sections }
    \cup { Manifest("malformed", <<>>, Section("absent", {})),
           Manifest("unreadable", <<>>, Section("absent", {})) }

\* ComposeConfig as yaml.Unmarshal fills it: Volumes stays nil unless the
\* manifest has a mapping under the key, and a mapping without keys gives
\* an empty map that is not nil
ComposeConfig(manifest) ==
    [Services |-> manifest.services,
     Volumes |-> [isNil |-> manifest.volumes.kind # "mapping",
                  keys |-> manifest.volumes.keys]]

\* the file names probed when Config.ComposeFile is empty, in order
candidates == <<"compose.yaml", "compose.yml", "docker-compose.yaml", "docker-compose.yml">>

DetectCfg(composeFile, include, exclude, hints) ==
    [ComposeFile |-> composeFile, IncludeVolumes |-> include,
     ExcludeVolumes |-> exclude, DatastoreHints |-> hints]

\* Config.DatastoreHints[volumeName]: the zero value for a missing key
HintOf(cfg, volumeName) ==
    IF volumeName \in DOMAIN cfg.DatastoreHints
    THEN cfg.DatastoreHints[volumeName] ELSE ""

getProjectName(cwdOK) ==
    IF cwdOK THEN <<"p">> ELSE <<"u", "n", "k", "n", "o", "w", "n">>

\* detectMount with the exclude list consulted only for a reference the
\* include list does not name
detectMount_IncludeWins(compose, cfg, projectName, service, volumeMount) ==
    LET parts == Split(volumeMount, ":")
    IN IF Len(parts) < 2 THEN <<>>
       ELSE LET volumeName == parts[1]
                mountPath == parts[2]
            IN IF HasPrefix(volumeName, ".") \/ HasPrefix(volumeName, "/") THEN <<>>
               ELSE IF ~compose.Volumes.isNil /\ volumeName \notin compose.Volumes.keys
                    THEN <<>>
               ELSE IF Len(cfg.IncludeVolumes) > 0 /\ ~contains(cfg.IncludeVolumes, volumeName)
                    THEN <<>>
               ELSE IF /\ contains(cfg.ExcludeVolumes, volumeName)
                       /\ ~contains(cfg.IncludeVolumes, volumeName) THEN <<>>
               ELSE << [Name |-> projectName \o <<"_">> \o volumeName,
                        DatastoreType |-> inferDatastoreType(service.Image, mountPath,
                                                             HintOf(cfg, volumeName)),
                        ContainerName |-> service.ContainerName,
                        MountPath |-> mountPath,
                        ImageName |-> service.Image,
                        SizeBytes |-> 0] >>

\* detectMount with the hint looked up under the prefixed name
detectMount_HintByFullName(compose, cfg, projectName, service, volumeMount) ==
    LET parts == Split(volumeMount, ":")
    IN IF Len(parts) < 2 THEN <<>>
       ELSE LET volumeName == parts[1]
                mountPath == parts[2]
            IN IF HasPrefix(volumeName, ".") \/ HasPrefix(volumeName, "/") THEN <<>>
               ELSE IF ~compose.Volumes.isNil /\ volumeName \notin compose.Volumes.keys
                    THEN <<>>
               ELSE IF Len(cfg.IncludeVolumes) > 0 /\ ~contains(cfg.IncludeVolumes, volumeName)
                    THEN <<>>
               ELSE IF contains(cfg.ExcludeVolumes, volumeName) THEN <<>>
               ELSE << [Name |-> projectName \o <<"_">> \o volumeName,
                        DatastoreType |-> inferDatastoreType(service.Image, mountPath,
                                            HintOf(cfg, projectName \o <<"_">> \o volumeName)),
                        ContainerName |-> service.ContainerName,
                        MountPath |-> mountPath,
                        ImageName |-> service.Image,
                        SizeBytes |-> 0] >>

\* lines 87-133 for one entry of a service's volumes list: the Volumes
\* appended, none or one
detectMount(compose, cfg, projectName, service, volumeMount) ==
    LET parts == Split(volumeMount, ":")
    IN IF Len(parts) < 2 THEN <<>>
       ELSE LET volumeName == parts[1]
                mountPath == parts[2]
            IN IF HasPrefix(volumeName, ".") \/ HasPrefix(volumeName, "/") THEN <<>>
               ELSE IF ~compose.Volumes.isNil /\ volumeName \notin compose.Volumes.keys
                    THEN <<>>
               ELSE IF Len(cfg.IncludeVolumes) > 0 /\ ~contains(cfg.IncludeVolumes, volumeName)
                    THEN <<>>
               ELSE IF contains(cfg.ExcludeVolumes, volumeName) THEN <<>>
               ELSE << [Name |-> projectName \o <<"_">> \o volumeName,
                        DatastoreType |-> inferDatastoreType(service.Image, mountPath,
                                                             HintOf(cfg, volumeName)),
                        ContainerName |-> service.ContainerName,
                        MountPath |-> mountPath,
                        ImageName |-> service.Image,
                        SizeBytes |-> 0] >>

\* the inner loop of line 87 from entry i on
RECURSIVE detectService(_, _, _, _, _)
detectService(compose, cfg, projectName, service, i) ==
    IF i > Len(service.Volumes) THEN <<>>
    ELSE detectMount(compose, cfg, projectName, service, service.Volumes[i])
         \o detectService(compose, cfg, projectName, service, i + 1)

\* the outer loop of line 86, which visits the services in the order the
\* range over the map yields them
RECURSIVE detectServices(_, _, _, _, _)
detectServices(compose, cfg, projectName, order, k) ==
    IF k > Len(order) THEN <<>>
    ELSE detectService(compose, cfg, projectName, compose.Services[order[k]], 1)
         \o detectServices(compose, cfg, projectName, order, k + 1)

\* the orders in which a range over a map with the given keys may yield them
RangeOrders(keys) ==
    { order \in [1..Cardinality(keys) -> keys] :
        \A i, j \in 1..Cardinality(keys) : order[i] = order[j] => i = j }

\* lines 55-65: the compose file to read, "" when none is found
FindComposeFile(cfg, dir) ==
    IF cfg.ComposeFile # "" THEN cfg.ComposeFile
    ELSE IF \E i \in 1..Len(candidates) : candidates[i] \in DOMAIN dir
    THEN candidates[CHOOSE i \in 1..Len(candidates) :
                      /\ candidates[i] \in DOMAIN dir
                      /\ \A j \in 1..(i - 1) : candidates[j] \notin DOMAIN dir]
    ELSE ""

\* DetectComposeVolumes in a working directory with the files dir, the range
\* over the services yielding them in the given order
DetectComposeVolumes(cfg, dir, cwdOK, order) ==
    LET composeFile == FindComposeFile(cfg, dir)
    IN IF composeFile = "" THEN [volumes |-> <<>>, err |-> "no compose file found"]
       ELSE IF composeFile \notin DOMAIN dir \/ dir[composeFile].kind = "unreadable"
       THEN [volumes |-> <<>>, err |-> "failed to read"]
       ELSE IF dir[composeFile].kind = "malformed"
       THEN [volumes |-> <<>>, err |-> "failed to parse"]
       ELSE [volumes |-> detectServices(ComposeConfig(dir[composeFile]), cfg,
                                        getProjectName(cwdOK), order, 1),
             err |-> ""]

\* the working directory: one compose file, under a probed name or another
Dirs == { name :> manifest : name \in {"compose.yml", "stack.yaml"}, manifest \in Manifests }

DetectCfgs ==
    { DetectCfg(composeFile, include, exclude, hints) :
        composeFile \in {"", "stack.yaml"},
        include \in {<<>>, <<RefA>>},
        exclude \in {<<>>, <<RefA>>},
        hints \in {<<>>, RefB :> DatastoreRedis} }

\* the services of the file DetectComposeVolumes reads, none when it reads none
ServicesRead(cfg, dir) ==
    LET composeFile == FindComposeFile(cfg, dir)
    IN IF composeFile \in DOMAIN dir /\ dir[composeFile].kind = "yaml"
       THEN DOMAIN dir[composeFile].services ELSE {}

Detection(cfg, dir, cwdOK, order, volumes, err) ==
    [op |-> "DetectComposeVolumes", cfg |-> cfg, dir |-> dir, cwdOK |-> cwdOK,
     order |-> order, volumes |-> volumes, err |-> err]

\* the configuration and the working directory of one invocation
DetectInit ==
    /\ root = EmptyRoot
    /\ volData = [v \in VolNames |-> 1]
    /\ now = 0
    /\ nextId = 0
    /\ trace = <<>>
    /\ fresh = NotFresh
    /\ ret \in { [op |-> "call", cfg |-> cfg, dir |-> dir, cwdOK |-> cwdOK] :
                   cfg \in DetectCfgs, dir \in Dirs, cwdOK \in BOOLEAN }

\* a detection pass
DoDetect ==
    /\ ret.op = "call"
    /\ \E order \in RangeOrders(ServicesRead(ret.cfg, ret.dir)) :
         \E d \in {DetectComposeVolumes(ret.cfg, ret.dir, ret.cwdOK, order)} :
           ret' = Detection(ret.cfg, ret.dir, ret.cwdOK, order, d.volumes, d.err)
    /\ UNCHANGED <<root, volData, now, nextId, trace, fresh>>

\* another pass of the same invocation's configuration over the same working
\* directory; `first` keeps what the pass before returned
DoDetectAgain ==
    /\ ret.op = "DetectComposeVolumes"
    /\ ret.err = ""
    /\ \E order \in RangeOrders(ServicesRead(ret.cfg, ret.dir)) :
         \E d \in {DetectComposeVolumes(ret.cfg, ret.dir, ret.cwdOK, order)} :
           ret' = [op |-> "DetectComposeVolumes again", cfg |-> ret.cfg, dir |-> ret.dir,
                   cwdOK |-> ret.cwdOK, order |-> order, volumes |-> d.volumes,
                   err |-> d.err, first |-> ret.volumes]
    /\ UNCHANGED <<root, volData, now, nextId, trace, fresh>>

DetectNext ==
    \/ DoDetect
    \/ DoDetectAgain

SpecDetect == DetectInit /\ [][DetectNext]_vars

----------------------------------------------------------------------------
(* C20: detection skips a named reference that is not a key of the         *)
(* manifest's top-level volumes section only when that section is present  *)
(* and non-empty; when the section is absent, or present but empty, every  *)
(* named (non-bind-mount) reference that passes the include/exclude        *)
(* filters is emitted.                                                     *)

\* the manifest a detection pass read
ManifestRead == ret.dir[FindComposeFile(ret.cfg, ret.dir)]

\* the entries <<service, position>> of the manifest that mount the named
\* reference ref
EntriesOf(manifest, ref) ==
    UNION { { <<svc, i>> : i \in { k \in 1..Len(manifest.services[svc].Volumes) :
                                     LET parts == Split(manifest.services[svc].Volumes[k], ":")
                                     IN Len(parts) >= 2 /\ parts[1] = ref } } :
            svc \in DOMAIN manifest.services }

PassesFilters(cfg, ref) ==
    /\ Len(cfg.IncludeVolumes) > 0 => contains(cfg.IncludeVolumes, ref)
    /\ ~contains(cfg.ExcludeVolumes, ref)

\* the number of Volumes of the list with the given name
Emitted(volumes, name) == Cardinality({i \in 1..Len(volumes) : volumes[i].Name = name})

C20_EmptySectionAcceptsAll ==
    ret.op = "DetectComposeVolumes" /\ ret.err = "" =>
        \A ref \in Refs :
            LET declared == /\ ManifestRead.volumes.kind = "mapping"
                            /\ ManifestRead.volumes.keys # {}
                            => ref \in ManifestRead.volumes.keys
            IN Emitted(ret.volumes, getProjectName(ret.cwdOK) \o <<"_">> \o ref)
                 = IF declared /\ PassesFilters(ret.cfg, ref)
                   THEN Cardinality(EntriesOf(ManifestRead, ref)) ELSE 0

----------------------------------------------------------------------------
(* C21: detection applies the include filter, then the exclude filter, to  *)
(* the unprefixed reference: with a non-empty include list only listed     *)
(* references are emitted, a reference in the exclude list is never        *)
(* emitted even when it is also in the include list, and with both lists   *)
(* empty no reference is filtered out.                                     *)

FullName(cwdOK, ref) == getProjectName(cwdOK) \o <<"_">> \o ref

\* the reference passes the declared-volumes check of the manifest read
Declared(ref) ==
    ManifestRead.volumes.kind = "mapping" => ref \in ManifestRead.volumes.keys

C21_IncludeThenExclude ==
    ret.op = "DetectComposeVolumes" /\ ret.err = "" =>
        \A ref \in Refs :
            LET emitted == Emitted(ret.volumes, FullName(ret.cwdOK, ref))
            IN /\ Len(ret.cfg.IncludeVolumes) > 0 /\ ~contains(ret.cfg.IncludeVolumes, ref)
                    => emitted = 0
               /\ contains(ret.cfg.ExcludeVolumes, ref) => emitted = 0
               /\ ret.cfg.IncludeVolumes = <<>> /\ ret.cfg.ExcludeVolumes = <<>> /\ Declared(ref)
                    => emitted = Cardinality(EntriesOf(ManifestRead, ref))

\* a pass with reference a in both lists over a manifest whose services
\* mount a and b: nothing is emitted
C21_Witness ==
    /\ ret.op = "DetectComposeVolumes"
    /\ ret.err = ""
    /\ ret.cfg.IncludeVolumes = <<RefA>>
    /\ ret.cfg.ExcludeVolumes = <<RefA>>
    /\ ManifestRead.volumes.kind = "absent"
    /\ EntriesOf(ManifestRead, RefA) # {}
    /\ EntriesOf(ManifestRead, RefB) # {}
    /\ ret.volumes = <<>>

----------------------------------------------------------------------------
(* C22: every Volume emitted by detection is named <project>_<reference>,  *)
(* with its kind resolved from the hint keyed by the unprefixed reference; *)
(* each service mount entry whose reference is a named volume passing the  *)
(* declared-volumes check and the include/exclude filters yields exactly   *)
(* one emitted Volume; bind mounts (reference starting with '.' or '/')    *)
(* and entries without a mount path yield none.                            *)

C22_OneVolumePerPassingEntry ==
    ret.op = "DetectComposeVolumes" /\ ret.err = "" =>
        /\ \A ref \in Refs :
             Emitted(ret.volumes, FullName(ret.cwdOK, ref))
               = IF Declared(ref) /\ PassesFilters(ret.cfg, ref)
                 THEN Cardinality(EntriesOf(ManifestRead, ref)) ELSE 0
        /\ \A i \in 1..Len(ret.volumes) :
             \E ref \in Refs :
               /\ ret.volumes[i].Name = FullName(ret.cwdOK, ref)
               /\ ret.volumes[i].DatastoreType
                    = IF ref \in DOMAIN ret.cfg.DatastoreHints
                      THEN ret.cfg.DatastoreHints[ref]
                      ELSE inferDatastoreType(ret.volumes[i].ImageName,
                                              ret.volumes[i].MountPath, "")

\* a pass with a hint for b over a manifest whose services db and cache mount
\* a, b and b: three Volumes, and the b of the nginx service is of the
\* hinted kind
C22_Witness ==
    /\ ret.op = "DetectComposeVolumes"
    /\ ret.err = ""
    /\ Len(ret.volumes) = 3
    /\ \E i \in 1..3 :
         /\ ret.volumes[i].Name = <<"p", "_", "b">>
         /\ ret.volumes[i].ImageName = <<"n", "g", "i", "n", "x">>
         /\ ret.volumes[i].DatastoreType = DatastoreRedis

----------------------------------------------------------------------------
(* C23: the Volume list emitted by one detection pass contains no two      *)
(* Volumes with the same full name, including when two services of the     *)
(* manifest mount the same named volume reference.                         *)

C23_DetectedNamesUnique ==
    ret.op = "DetectComposeVolumes" =>
        \A i, j \in 1..Len(ret.volumes) :
            ret.volumes[i].Name = ret.volumes[j].Name => i = j

----------------------------------------------------------------------------
(* sanitizeName on volume names given as sequences of characters           *)

\* the nine characters, two that are kept, and the replacement itself
NameChars == {UnsafeChars[k] : k \in 1..Len(UnsafeChars)} \cup {"a", ".", "_"}

\* the names of at most MaxNameLen characters
NameInputs == UNION { [1..n -> NameChars] : n \in 0..MaxNameLen }

Sanitized(name, result, again) ==
    [op |-> "sanitizeName", name |-> name, result |-> result, again |-> again]

SanitizeInit ==
    /\ root = EmptyRoot
    /\ volData = [v \in VolNames |-> 1]
    /\ now = 0
    /\ nextId = 0
    /\ trace = <<>>
    /\ fresh = NotFresh
    /\ ret \in { [op |-> "call", name |-> name] : name \in NameInputs }

\* sanitizeName(name), and sanitizeName of what it returned
DoSanitize ==
    /\ ret.op = "call"
    /\ \E result \in {sanitizeName(ret.name)} :
         ret' = Sanitized(ret.name, result, sanitizeName(result))
    /\ UNCHANGED <<root, volData, now, nextId, trace, fresh>>

SanitizeNext == DoSanitize

SpecSanitize == SanitizeInit /\ [][SanitizeNext]_vars

----------------------------------------------------------------------------
(* C24: sanitizeName replaces every occurrence of each of the nine         *)
(* characters / \ : * ? " < > | by one underscore and leaves every other   *)
(* character unchanged, so the result has the length of the input,         *)
(* contains none of the nine characters, and sanitizeName applied to its   *)
(* own result returns it unchanged.                                        *)

Nine == {"/", "\\", ":", "*", "?", "\"", "<", ">", "|"}

C24_SanitizeReplacesTheNine ==
    ret.op = "sanitizeName" =>
        /\ Len(ret.result) = Len(ret.name)
        /\ \A i \in 1..Len(ret.name) :
             ret.result[i] = IF ret.name[i] \in Nine THEN "_" ELSE ret.name[i]
        /\ \A i \in 1..Len(ret.result) : ret.result[i] \notin Nine
        /\ ret.again = ret.result

\* a name with the same unsafe character twice around a kept one
C24_Witness ==
    /\ ret.op = "sanitizeName"
    /\ ret.name = <<"/", "a", "/">>
    /\ ret.result = <<"_", "a", "_">>
    /\ ret.again = ret.result

----------------------------------------------------------------------------
(* Configuration loading (config.Load).  A file is missing or unreadable,  *)
(* malformed, or a YAML document: a function from the keys it sets to      *)
(* their values.                                                           *)

\* models.DefaultConfig(), with the fields a file can set
DefaultFileConfig ==
    [ComposeFile |-> "", SnapshotDir |-> ".dataclean",
     BackupBeforeRestore |-> TRUE, RetentionDays |-> 0]

\* the yaml tag of each field of models.Config
YamlKey ==
    [ComposeFile |-> "compose_file", SnapshotDir |-> "snapshot_dir",
     BackupBeforeRestore |-> "backup_before_restore", RetentionDays |-> "retention_days"]

ConfigFile(state, doc) == [state |-> state, doc |-> doc]

\* yaml.Unmarshal(data, &Config{}): the keys the document does not set are
\* the zero values
UnmarshalConfig_Fresh(doc, cfg) ==
    [field \in DOMAIN cfg |->
        IF YamlKey[field] \in DOMAIN doc THEN doc[YamlKey[field]]
        ELSE [ComposeFile |-> "", SnapshotDir |-> "",
              BackupBeforeRestore |-> FALSE, RetentionDays |-> 0][field]]

\* yaml.Unmarshal(data, cfg) on a well-formed document: the fields whose key
\* the document sets are overwritten, a key that is no field is ignored
UnmarshalConfig(doc, cfg) ==
    [field \in DOMAIN cfg |->
        IF YamlKey[field] \in DOMAIN doc THEN doc[YamlKey[field]] ELSE cfg[field]]

Loaded(cfg, err, read) == [cfg |-> cfg, err |-> err, read |-> read]

\* lines 363-370 and 376-380 once the file is read
loadFile(files, file, read) ==
    IF files[file].state = "malformed"
    THEN Loaded(DefaultFileConfig, "yaml error", read)
    ELSE Loaded(UnmarshalConfig(files[file].doc, DefaultFileConfig), "", read)

defaultFiles == <<".dataclean.yaml", ".dataclean.yml">>

\* the loop of lines 375-382 from defaultFiles[i] on
RECURSIVE loadDefault(_, _, _)
loadDefault(files, i, read) ==
    IF i > Len(defaultFiles) THEN Loaded(DefaultFileConfig, "", read)
    ELSE IF files[defaultFiles[i]].state = "missing"
    THEN loadDefault(files, i + 1, read \o <<defaultFiles[i]>>)
    ELSE loadFile(files, defaultFiles[i], read \o <<defaultFiles[i]>>)

\* config.Load(cfgFile); `read` lists the files handed to os.ReadFile
Load(files, cfgFile) ==
    IF cfgFile # ""
    THEN IF files[cfgFile].state = "missing"
         THEN Loaded(DefaultFileConfig, "read error", <<cfgFile>>)
         ELSE loadFile(files, cfgFile, <<cfgFile>>)
    ELSE loadDefault(files, 1, <<>>)

\* documents: empty, one key, two keys, a key that is no field
ConfigDocs ==
    { <<>>,
      "snapshot_dir" :> "snaps",
      ("snapshot_dir" :> "snaps") @@ ("backup_before_restore" :> FALSE),
      ("backup_before_restore" :> FALSE) @@ ("retention_days" :> 1),
      "snapshotdir" :> "snaps" }

ConfigFiles ==
    { ConfigFile("missing", <<>>), ConfigFile("malformed", <<>>) }
    \cup { ConfigFile("yaml", doc) : doc \in ConfigDocs }

FileNames == {".dataclean.yaml", ".dataclean.yml", "my.yaml"}

LoadInit ==
    /\ root = EmptyRoot
    /\ volData = [v \in VolNames |-> 1]
    /\ now = 0
    /\ nextId = 0
    /\ trace = <<>>
    /\ fresh = NotFresh
    /\ ret \in { [op |-> "call", files |-> files, cfgFile |-> cfgFile] :
                   files \in [FileNames -> ConfigFiles], cfgFile \in {"", "my.yaml"} }

DoLoad ==
    /\ ret.op = "call"
    /\ \E l \in {Load(ret.files, ret.cfgFile)} :
         ret' = [op |-> "Load", files |-> ret.files, cfgFile |-> ret.cfgFile,
                 cfg |-> l.cfg, err |-> l.err, read |-> l.read]
    /\ UNCHANGED <<root, volData, now, nextId, trace, fresh>>

LoadNext == DoLoad

SpecLoad == LoadInit /\ [][LoadNext]_vars

----------------------------------------------------------------------------
(* C25: config loading.  With an explicit path only that file is read, and *)
(* an unreadable or malformed file is an error; with no explicit path      *)
(* .dataclean.yaml is used when readable, otherwise .dataclean.yml,        *)
(* otherwise the defaults; in every successful case a key the file does    *)
(* not set keeps its default (snapshot directory '.dataclean',             *)
(* backup-before-restore true).                                            *)

\* the file the claim says the configuration comes from, "" for none
UsedFile ==
    IF ret.cfgFile # "" THEN ret.cfgFile
    ELSE IF ret.files[".dataclean.yaml"].state # "missing" THEN ".dataclean.yaml"
    ELSE IF ret.files[".dataclean.yml"].state # "missing" THEN ".dataclean.yml"
    ELSE ""

C25_LoadChoosesFileKeepsDefaults ==
    ret.op = "Load" =>
        /\ ret.cfgFile # "" => ret.read = <<ret.cfgFile>>
        /\ ret.cfgFile = "" => \A i \in 1..Len(ret.read) : ret.read[i] # "my.yaml"
        /\ ret.err # "" <=>
             (UsedFile # "" /\ ret.files[UsedFile].state \in {"missing", "malformed"})
        /\ UsedFile = "" => ret.err = "" /\ ret.cfg = DefaultFileConfig
        /\ (ret.err = "" /\ UsedFile # "") =>
             /\ ret.files[UsedFile].state = "yaml"
             /\ \A field \in DOMAIN DefaultFileConfig :
                  ret.cfg[field] =
                    IF YamlKey[field] \in DOMAIN ret.files[UsedFile].doc
                    THEN ret.files[UsedFile].doc[YamlKey[field]]
                    ELSE DefaultFileConfig[field]

\* no explicit path, no .dataclean.yaml, a .dataclean.yml that sets only the
\* snapshot directory: the directory is taken, backup-before-restore stays on
C25_Witness ==
    /\ ret.op = "Load"
    /\ ret.cfgFile = ""
    /\ ret.files[".dataclean.yaml"].state = "missing"
    /\ ret.files[".dataclean.yml"] = ConfigFile("yaml", "snapshot_dir" :> "snaps")
    /\ ret.err = ""
    /\ ret.read = <<".dataclean.yaml", ".dataclean.yml">>
    /\ ret.cfg.SnapshotDir = "snaps"
    /\ ret.cfg.BackupBeforeRestore = TRUE

----------------------------------------------------------------------------
(* The commands snapshot, restore, reset and delete (runSnapshot,          *)
(* runRestore, runReset, runDelete).  What the user types on standard      *)
(* input is a sequence of characters; `calls` lists the Manager methods    *)
(* the command invoked, in order.                                          *)

Spaces == {" ", "\t", "\r", "\n"}

\* bufio.Reader.ReadString('\n'): up to and including the first newline, or
\* all there is
ReadString(stdin) ==
    IF \E i \in 1..Len(stdin) : stdin[i] = "\n"
    THEN SubSeq(stdin, 1, CHOOSE i \in 1..Len(stdin) :
                            stdin[i] = "\n" /\ \A j \in 1..(i - 1) : stdin[j] # "\n")
    ELSE stdin

\* strings.TrimSpace
TrimSpace(s) ==
    IF \A i \in 1..Len(s) : s[i] \in Spaces THEN <<>>
    ELSE SubSeq(s, CHOOSE i \in 1..Len(s) :
                      s[i] \notin Spaces /\ \A j \in 1..(i - 1) : s[j] \in Spaces,
                   CHOOSE i \in 1..Len(s) :
                      s[i] \notin Spaces /\ \A j \in (i + 1)..Len(s) : s[j] \in Spaces)

Yes == <<"y", "e", "s">>

\* lines 77-83 of runReset and 80-86 of runRestore: the answer counts as yes
confirmStdin(stdin) == TrimSpace(ToLower(ReadString(stdin))) = Yes

\* fmt.Scanln(&response): one token on the line, blanks around it skipped;
\* an empty line, an empty input or a second token is an error
Scanln(stdin) ==
    LET line == ReadString(stdin)
        text == IF Len(line) > 0 /\ line[Len(line)] = "\n"
                THEN SubSeq(line, 1, Len(line) - 1) ELSE line
        token == TrimSpace(text)
    IN IF token = <<>> THEN [response |-> <<>>, err |-> "unexpected newline"]
       ELSE IF \E i \in 1..Len(token) : token[i] \in Spaces
       THEN [response |-> SubSeq(token, 1, (CHOOSE i \in 1..Len(token) :
                              token[i] \in Spaces /\ \A j \in 1..(i - 1) : token[j] \notin Spaces) - 1),
             err |-> "expected newline"]
       ELSE [response |-> token, err |-> ""]

\* tui.ConfirmDestructive
ConfirmDestructive(stdin) ==
    LET scanned == Scanln(stdin)
    IN IF scanned.err # "" THEN [confirmed |-> FALSE, err |-> scanned.err]
       ELSE [confirmed |-> scanned.response = Yes, err |-> ""]

Ran(calls, err) == [calls |-> calls, err |-> err]

\* the flags and the surroundings of one command: config.Load and
\* docker.NewClient succeed or not, detection finds volumes (the named
\* snapshot is readable) or not, the Manager's operation succeeds or not
Invocation(cmd, dryRun, force, stdin, loadOK, dockerOK, found, opOK) ==
    [op |-> "call", cmd |-> cmd, dryRun |-> dryRun, force |-> force, stdin |-> stdin,
     loadOK |-> loadOK, dockerOK |-> dockerOK, found |-> found, opOK |-> opOK]

runSnapshot(in) ==
    IF ~in.loadOK THEN Ran(<<>>, "failed to load config")
    ELSE IF ~in.dockerOK THEN Ran(<<>>, "failed to connect to Docker")
    ELSE IF ~in.found THEN Ran(<<"DetectComposeVolumes">>, "")
    ELSE IF in.dryRun THEN Ran(<<"DetectComposeVolumes">>, "")
    ELSE Ran(<<"DetectComposeVolumes", "CreateWithOptions">>,
             IF in.opOK THEN "" ELSE "failed to create snapshot")

\* runRestore without the return of lines 90-93
runRestore_NoDryRunStop(in) ==
    IF ~in.loadOK THEN Ran(<<>>, "failed to load config")
    ELSE IF ~in.dockerOK THEN Ran(<<>>, "failed to connect to Docker")
    ELSE IF ~in.found THEN Ran(<<"Get">>, "snapshot not found")
    ELSE IF ~in.force /\ ~in.dryRun /\ ~confirmStdin(in.stdin) THEN Ran(<<"Get">>, "")
    ELSE Ran(<<"Get", "Restore">>, IF in.opOK THEN "" ELSE "failed to restore snapshot")

runRestore(in) ==
    IF ~in.loadOK THEN Ran(<<>>, "failed to load config")
    ELSE IF ~in.dockerOK THEN Ran(<<>>, "failed to connect to Docker")
    ELSE IF ~in.found THEN Ran(<<"Get">>, "snapshot not found")
    ELSE IF ~in.force /\ ~in.dryRun /\ ~confirmStdin(in.stdin) THEN Ran(<<"Get">>, "")
    ELSE IF in.dryRun THEN Ran(<<"Get">>, "")
    ELSE Ran(<<"Get", "Restore">>, IF in.opOK THEN "" ELSE "failed to restore snapshot")

runReset(in) ==
    IF ~in.loadOK THEN Ran(<<>>, "failed to load config")
    ELSE IF ~in.dockerOK THEN Ran(<<>>, "failed to connect to Docker")
    ELSE IF ~in.found THEN Ran(<<"DetectComposeVolumes">>, "")
    ELSE IF ~in.force /\ ~in.dryRun /\ ~confirmStdin(in.stdin)
    THEN Ran(<<"DetectComposeVolumes">>, "")
    ELSE IF in.dryRun THEN Ran(<<"DetectComposeVolumes">>, "")
    ELSE Ran(<<"DetectComposeVolumes", "Reset">>,
             IF in.opOK THEN "" ELSE "failed to reset volumes")

\* runDelete with the snapshot named on the command line
runDelete(in) ==
    IF ~in.loadOK THEN Ran(<<>>, "failed to load config")
    ELSE IF ~in.dockerOK THEN Ran(<<>>, "failed to create Docker client")
    ELSE IF ~in.found THEN Ran(<<"Get">>, "snapshot not found")
    ELSE IF in.dryRun THEN Ran(<<"Get">>, "")
    ELSE IF ~in.force /\ ConfirmDestructive(in.stdin).err # ""
    THEN Ran(<<"Get">>, ConfirmDestructive(in.stdin).err)
    ELSE IF ~in.force /\ ~ConfirmDestructive(in.stdin).confirmed THEN Ran(<<"Get">>, "")
    ELSE Ran(<<"Get", "Delete">>, IF in.opOK THEN "" ELSE "failed to delete snapshot")

\* what the user may type: yes, YES, yes between blanks, no, an empty line,
\* nothing, yes followed by a word, yes without a newline
Stdins ==
    { Yes \o <<"\n">>, <<"Y", "E", "S", "\n">>, <<" ">> \o Yes \o <<" ", "\n">>,
      <<"n", "o", "\n">>, <<"\n">>, <<>>, Yes \o <<" ", "n", "o", "\n">>, Yes }

Commands == {"snapshot", "restore", "reset", "delete"}

CommandInit ==
    /\ root = EmptyRoot
    /\ volData = [v \in VolNames |-> 1]
    /\ now = 0
    /\ nextId = 0
    /\ trace = <<>>
    /\ fresh = NotFresh
    /\ ret \in { Invocation(cmd, dryRun, force, stdin, loadOK, dockerOK, found, opOK) :
                   cmd \in Commands, dryRun \in BOOLEAN, force \in BOOLEAN, stdin \in Stdins,
                   loadOK \in BOOLEAN, dockerOK \in BOOLEAN, found \in BOOLEAN,
                   opOK \in BOOLEAN }

Finished(in, ran) ==
    [op |-> "ran", cmd |-> in.cmd, dryRun |-> in.dryRun, force |-> in.force,
     stdin |-> in.stdin, calls |-> ran.calls, err |-> ran.err]

RunCommand(cmd, ran) ==
    /\ ret.op = "call"
    /\ ret.cmd = cmd
    /\ ret' = Finished(ret, ran)
    /\ UNCHANGED <<root, volData, now, nextId, trace, fresh>>

DoRunSnapshot == RunCommand("snapshot", runSnapshot(ret))

DoRunRestore == RunCommand("restore", runRestore(ret))

DoRunReset == RunCommand("reset", runReset(ret))

DoRunDelete == RunCommand("delete", runDelete(ret))

CommandNext ==
    \/ DoRunSnapshot
    \/ DoRunRestore
    \/ DoRunReset
    \/ DoRunDelete

SpecCommands == CommandInit /\ [][CommandNext]_vars

----------------------------------------------------------------------------
(* C26: in the restore, reset and delete commands the Manager's            *)
(* destructive operation (Restore, Reset, Delete) is invoked only when     *)
(* dry-run is off and either --force is set or the user answered 'yes' to  *)
(* the confirmation; with --dry-run set none of the snapshot, restore,     *)
(* reset and delete commands invokes Create, Restore, Reset or Delete.     *)

Invoked(calls, method) == \E i \in 1..Len(calls) : calls[i] = method

\* the first line typed is yes, whatever the case and the blanks around it
AnsweredYes(stdin) ==
    \E line \in {ReadString(stdin)} :
        \E first \in 1..Len(line), last \in 1..Len(line) :
            /\ last = first + 2
            /\ line[first] \in {"y", "Y"}
            /\ line[first + 1] \in {"e", "E"}
            /\ line[last] \in {"s", "S"}
            /\ \A j \in (1..Len(line)) \ (first..last) : line[j] \in Spaces

C26_DestructiveOnlyWhenConfirmed ==
    ret.op = "ran" =>
        /\ \A method \in {"Restore", "Reset", "Delete"} :
             Invoked(ret.calls, method) =>
                 ~ret.dryRun /\ (ret.force \/ AnsweredYes(ret.stdin))
        /\ ret.dryRun =>
             \A method \in {"Create", "CreateWithOptions", "Restore", "Reset", "Delete"} :
                 ~Invoked(ret.calls, method)

\* restore without --force and without --dry-run, answered YES: Restore runs
C26_Witness ==
    /\ ret.op = "ran"
    /\ ret.cmd = "restore"
    /\ ~ret.force
    /\ ~ret.dryRun
    /\ ret.stdin = <<"Y", "E", "S", "\n">>
    /\ ret.calls = <<"Get", "Restore">>

----------------------------------------------------------------------------
(* C27: detection is deterministic in its order: two detection passes over *)
(* the same manifest with the same config emit the same Volumes in the     *)
(* same order, the order of the services and mounts in the manifest.       *)

C27_DetectionOrderDeterministic ==
    ret.op = "DetectComposeVolumes again" => ret.volumes = ret.first

----------------------------------------------------------------------------
(* Restoring an auto-backup.  The lifecycle of Spec, where a caller may    *)
(* also restore the backup that an earlier Restore of the same second      *)
(* left, with one more Create call than MaxCreates allows.                 *)

\* a caller of the Manager restores the pre-restore backup of this second
DoRestoreAuto ==
    /\ ret = Idle
    /\ Readable(root, PreRestoreName(now))
    /\ \E name \in {PreRestoreName(now)}, cfg \in Cfgs :
         \E loaded \in {loadMetadata(root, name)} :
           \E cfault \in (IF cfg.BackupBeforeRestore
                          THEN CreateFaults(loaded.snap.Volumes) ELSE {NoFault}),
              fault \in LoopFaults(loaded.snap.Volumes) :
             \E x \in {Restore(root, volData, now, nextId + 1, name, cfg, cfault, fault)} :
               /\ nextId + x.calls <= MaxBackupCreates
               /\ root' = x.root
               /\ volData' = x.data
               /\ nextId' = nextId + x.calls
               /\ trace' = x.trace
               /\ ret' = Result("Restore", name, loaded.snap.Volumes, cfg, x.err, NoSnap)
               /\ fresh' = NotFresh
               /\ UNCHANGED now

AutoNext ==
    \/ DoCreate
    \/ DoRestore
    \/ DoReset
    \/ DoRestoreAuto
    \/ AppWrite
    \/ Exit

SpecAutoBackup == Init /\ [][AutoNext]_vars

----------------------------------------------------------------------------
(* C28: Restore(name) only reads snapshot `name`: for every name and every *)
(* time of invocation, including restoring an auto-backup snapshot while   *)
(* backup_before_restore is enabled, the metadata record and the archive   *)
(* files of snapshot `name` are the same after Restore as before it, and   *)
(* the contents imported into the volumes are those captured when `name`   *)
(* was created.                                                            *)

C28_RestoreOnlyReadsTheSnapshot ==
    [][ret = Idle /\ ret'.op = "Restore" /\ Readable(root, ret'.name)
        => /\ EntryOf(root', ret'.name) = EntryOf(root, ret'.name)
           /\ ret'.err = "" =>
                \A i \in 1..Len(ret'.vols) :
                    TarPath(ret'.vols[i]) \in DOMAIN EntryOf(root, ret'.name).files
                    => volData'[ret'.vols[i].Name]
                         = EntryOf(root, ret'.name).files[TarPath(ret'.vols[i])].data]_vars

----------------------------------------------------------------------------
(* Sizes.  The lifecycle where os.Stat may also fail on an archive that    *)
(* was just exported (part_004:70-75): the export ran in a container and   *)
(* the archive is measured from the tool's own process afterwards.         *)

StatFaults(volumes) ==
    CreateFaults(volumes) \cup {[f |-> "stat", k |-> k] : k \in 1..Len(volumes)}

DoCreateSized ==
    /\ ret = Idle
    /\ nextId < MaxCreates
    /\ \E name \in UserNames, volumes \in VolLists :
         \E fault \in StatFaults(volumes) :
           \E c \in {CreateWithOptions(root, volData, now, nextId + 1, name, volumes,
                                       NoOpts, DefaultConfig, fault)} :
             /\ root' = c.root
             /\ nextId' = nextId + 1
             /\ trace' = c.trace
             /\ ret' = Result("Create", name, volumes, DefaultConfig, c.err, c.snap)
             /\ fresh' = NotFresh
             /\ UNCHANGED <<volData, now>>

DoRestoreSized ==
    /\ ret = Idle
    /\ \E name \in Names, cfg \in Cfgs :
         \E loaded \in {loadMetadata(root, name)} :
           \E cfault \in (IF loaded.err = "" /\ cfg.BackupBeforeRestore
                          THEN StatFaults(loaded.snap.Volumes) ELSE {NoFault}),
              fault \in (IF loaded.err = ""
                         THEN LoopFaults(loaded.snap.Volumes) ELSE {NoFault}) :
             \E x \in {Restore(root, volData, now, nextId + 1, name, cfg, cfault, fault)} :
               /\ nextId + x.calls <= MaxCreates
               /\ root' = x.root
               /\ volData' = x.data
               /\ nextId' = nextId + x.calls
               /\ trace' = x.trace
               /\ ret' = Result("Restore", name, loaded.snap.Volumes, cfg, x.err, NoSnap)
               /\ fresh' = NotFresh
               /\ UNCHANGED now

SizedNext ==
    \/ DoCreateSized
    \/ DoRestoreSized
    \/ DoReset
    \/ AppWrite
    \/ Exit

SpecSizes == Init /\ [][SizedNext]_vars

----------------------------------------------------------------------------
(* C29: in every record written by Create, including the auto-backup       *)
(* Create that Restore calls with the volume list read from an older       *)
(* snapshot record, the snapshot's aggregate size in bytes equals the sum  *)
(* of the sizes recorded on its volumes.                                   *)

RECURSIVE SumSizes(_, _)
SumSizes(volumes, n) ==
    IF n = 0 THEN 0 ELSE SumSizes(volumes, n - 1) + volumes[n].SizeBytes

C29_AggregateIsSumOfVolumeSizes ==
    \A name \in Names :
        Readable(root, name) =>
            \E snap \in {loadMetadata(root, name).snap} :
                snap.SizeBytes = SumSizes(snap.Volumes, Len(snap.Volumes))

----------------------------------------------------------------------------
(* Two invocations of the tool run AddTag on the same snapshot at the same *)
(* time.  Each is its own process with its own copy of the record: it      *)
(* reads the record (Get, part_004:264), then checks, appends and writes   *)
(* (part_004:270-277); nothing locks metadata.yaml in between, so the      *)
(* steps of the two interleave in any order.                               *)

Invocations == {1, 2}

\* AddTag after its Get, with the record read again when it is written
addTagSave_Reread(r, snapshot, tag, writeOK) ==
    AddTag(r, snapshot.Name, tag, writeOK)

\* AddTag after its Get (lines 269-277): snapshot is the copy Get returned
addTagSave(r, snapshot, tag, writeOK) ==
    IF HasTag(snapshot.Tags, tag) THEN NotLoaded(r, "")
    ELSE saveMetadata(r, [snapshot EXCEPT !.Tags = Append(@, tag)], writeOK)

\* the state of the two invocations: where each one is, the copy it holds,
\* what it returned, whether it wrote, and which one wrote last
Running(name, tag, pc, snapshot, err, wrote, last) ==
    [op |-> "AddTag x2", name |-> name, tag |-> tag, pc |-> pc,
     snapshot |-> snapshot, err |-> err, wrote |-> wrote, last |-> last]

StartAddTags ==
    /\ ret = Idle
    /\ \E name \in UserNames, t1 \in Tags, t2 \in Tags :
         /\ t1 # t2
         /\ ret' = Running(name, <<t1, t2>>, [p \in Invocations |-> "get"],
                           [p \in Invocations |-> NoSnap],
                           [p \in Invocations |-> ""],
                           [p \in Invocations |-> FALSE], 0)
    /\ trace' = <<>>
    /\ fresh' = NotFresh
    /\ UNCHANGED <<root, volData, now, nextId>>

\* line 264-267
AddTagGet(p) ==
    /\ ret.op = "AddTag x2"
    /\ ret.pc[p] = "get"
    /\ \E loaded \in {Get(root, ret.name)} :
         ret' = IF loaded.err # ""
                THEN [ret EXCEPT !.pc[p] = "done", !.err[p] = loaded.err]
                ELSE [ret EXCEPT !.pc[p] = "save", !.snapshot[p] = loaded.snap]
    /\ UNCHANGED <<root, volData, now, nextId, trace, fresh>>

\* lines 269-277
AddTagSave(p) ==
    /\ ret.op = "AddTag x2"
    /\ ret.pc[p] = "save"
    /\ \E writeOK \in BOOLEAN :
         \E x \in {addTagSave(root, ret.snapshot[p], ret.tag[p], writeOK)} :
           /\ root' = x.root
           /\ trace' = trace \o x.trace
           /\ ret' = [ret EXCEPT !.pc[p] = "done", !.err[p] = x.err,
                                 !.wrote[p] = x.trace # <<>>,
                                 !.last = IF x.trace # <<>> THEN p ELSE @]
    /\ UNCHANGED <<volData, now, nextId, fresh>>

\* both invocations have returned
AddTagsReturn ==
    /\ ret.op = "AddTag x2"
    /\ \A p \in Invocations : ret.pc[p] = "done"
    /\ ret' = Idle
    /\ trace' = <<>>
    /\ UNCHANGED <<root, volData, now, nextId, fresh>>

CreateReturn ==
    /\ ret.op = "Create"
    /\ Exit

ConcurrentNext ==
    \/ TagCreate
    \/ CreateReturn
    \/ StartAddTags
    \/ \E p \in Invocations : AddTagGet(p)
    \/ \E p \in Invocations : AddTagSave(p)
    \/ AddTagsReturn

SpecConcurrent == Init /\ [][ConcurrentNext]_vars

----------------------------------------------------------------------------
(* C30: the record updates are non-atomic read-modify-write steps with no  *)
(* lock.  While two invocations run AddTag on the same snapshot with two   *)
(* different tags, the record on disk is the copy that the invocation      *)
(* which wrote last had read, with its tag appended, whatever the other    *)
(* one wrote in between; so there is an interleaving after which the       *)
(* record holds only one of the two tags (C30_Witness).                    *)

C30_LastWriterOverwrites ==
    (ret.op = "AddTag x2" /\ ret.last # 0) =>
        Get(root, ret.name).snap.Tags
            = Append(ret.snapshot[ret.last].Tags, ret.tag[ret.last])

\* the lost update: both invocations have returned nil, each has written
\* its tag, and the record holds the tag of one of them only
C30_Witness ==
    /\ ret.op = "AddTag x2"
    /\ \A p \in Invocations :
          ret.pc[p] = "done" /\ ret.err[p] = "" /\ ret.wrote[p]
    /\ \E p, q \in Invocations :
          /\ HasTag(Get(root, ret.name).snap.Tags, ret.tag[p])
          /\ ~HasTag(Get(root, ret.name).snap.Tags, ret.tag[q])

====
